---------------------------- MODULE Spec2Model ----------------------------
(***************************************************************************)
(* Model of the search and indexing subsystem of gentleman-book-mcp:       *)
(*   - the chunker (splitIntoChunks, splitLongContent, truncateContent),   *)
(*   - the vector store (VectorStore.Add/AddBatch/Search/Count/Clear),     *)
(*   - the semantic engine (SemanticEngine.IndexChunks/Search/IsIndexed),  *)
(*   - the handlers that drive them (handleBuildSemanticIndex,             *)
(*     handleSemanticSearch, handleSemanticStatus).                        *)
(*                                                                         *)
(* Strings are sequences of one-character strings.  The specifications     *)
(* share the variables:                                                    *)
(*   Spec        the server: concurrent handler invocations on one engine, *)
(*   SpecStore   a vector store used directly by one caller,               *)
(*   SpecChunk   the chunker applied to document bodies typed piece by     *)
(*               piece,                                                    *)
(*   SpecBook    Parser.ListChapters and Parser.Search on book             *)
(*               directories,                                              *)
(*   SpecSection Parser.GetSection on chapters,                            *)
(*   SpecSlug    Parser.generateTagID on titles,                           *)
(*   SpecParse   Parser.parseFrontmatter on raw documents,                 *)
(*   SpecOllama  OllamaClient.EmbedBatch on lists of texts.                *)
(***************************************************************************)
EXTENDS Integers, Sequences, FiniteSets, TLC

VARIABLES
    corpus,      \* the book directory: locale -> sequence of chapter files
    chunks,      \* VectorStore.chunks
    muWriter,    \* VectorStore.mu: the goroutine holding the write lock, or 0
    muReaders,   \* VectorStore.mu: the goroutines holding a read lock
    isIndexed,   \* SemanticEngine.isIndexed
    indexMutex,  \* SemanticEngine.indexMutex: its holder, or 0
    pc,          \* position of every goroutine in its handler
    loc,         \* local variables of every goroutine
    nCalls,      \* number of handler invocations started so far (call ids)
    trace,       \* history: what the IndexChunks calls did, in order
    nEmbed,      \* history: number of requests Search sent to the provider
    hist,        \* history: one record per IndexChunks call that returned
    done,        \* history: sizes of the AddBatch appends that completed
    body,        \* the text being typed or read (SpecChunk, SpecSlug, SpecParse)
    out,         \* result of the last call of the function applied to body
    last         \* the last call on the store, the parser or the client, and
                 \* its result

vars == <<corpus, chunks, muWriter, muReaders, isIndexed, indexMutex, pc, loc,
          nCalls, trace, nEmbed, hist, done, body, out, last>>

---------------------------------------------------------------------------
(* Bounds of the model *)

\* longest chunk content; the source passes 1000 (part_000:676, part_000:694)
maxLen == 2

\* texts per provider request; the source uses 100 (part_001:416)
batchSize == 2

\* number of pieces a typed body has at most (SpecChunk)
MaxPieces == 5

\* number of chunks a directly used store holds at most (SpecStore)
MaxStore == 3

\* bits of the significand of a score; float64 has 53 (part_001:141)
Precision == 7

\* number of build_semantic_index invocations (Spec)
MaxBuilds == 2

\* number of query-path invocations (Spec)
MaxReads == 1

---------------------------------------------------------------------------
(* Strings *)

NL == "\n"
SP == " "
TAB == "\t"

\* unicode.IsSpace, and \s of regexp, restricted to the characters of the model
IsSpace(c) == c \in {SP, NL, TAB}

\* s[from:to] of Go, 0-based, to exclusive
Slice(s, from, to) == SubSeq(s, from + 1, to)

\* strings.TrimSpace
RECURSIVE TrimLeft(_)
TrimLeft(s) ==
    IF s # <<>> /\ IsSpace(Head(s)) THEN TrimLeft(Tail(s)) ELSE s

RECURSIVE TrimRight(_)
TrimRight(s) ==
    IF s # <<>> /\ IsSpace(s[Len(s)]) THEN TrimRight(SubSeq(s, 1, Len(s) - 1)) ELSE s

TrimSpace(s) == TrimRight(TrimLeft(s))

\* strings.Split(s, "\n\n"): non-overlapping separators, left to right
RECURSIVE SplitParagraphsFrom(_, _, _)
SplitParagraphsFrom(s, beg, p) ==
    IF p + 2 > Len(s)
    THEN <<Slice(s, beg, Len(s))>>
    ELSE IF s[p + 1] = NL /\ s[p + 2] = NL
         THEN <<Slice(s, beg, p)>> \o SplitParagraphsFrom(s, p + 2, p + 2)
         ELSE SplitParagraphsFrom(s, beg, p + 1)

SplitParagraphs(s) == SplitParagraphsFrom(s, 0, 0)

\* strings.Split(s, "\n"): the lines of a text
RECURSIVE LinesFrom(_, _, _)
LinesFrom(s, beg, p) ==
    IF p >= Len(s) THEN <<Slice(s, beg, Len(s))>>
    ELSE IF s[p + 1] = NL THEN <<Slice(s, beg, p)>> \o LinesFrom(s, p + 1, p + 1)
         ELSE LinesFrom(s, beg, p + 1)

Lines(s) == LinesFrom(s, 0, 0)

\* the lines bufio.Scanner yields with its default split function: as Lines,
\* without an empty last line
ScanLines(s) ==
    LET ls == Lines(s)
    IN  IF ls[Len(ls)] = <<>> THEN SubSeq(ls, 1, Len(ls) - 1) ELSE ls

\* strings.ToLower restricted to the characters of the model
ToLowerChar(c) == CASE c = "A" -> "a" [] c = "B" -> "b" [] OTHER -> c

ToLower(s) == [i \in 1..Len(s) |-> ToLowerChar(s[i])]

\* strings.Fields: the maximal runs of characters that are not white space;
\* cur is the field being read
RECURSIVE FieldsFrom(_, _, _)
FieldsFrom(s, p, cur) ==
    IF p > Len(s) THEN (IF cur # <<>> THEN <<cur>> ELSE <<>>)
    ELSE IF IsSpace(s[p])
         THEN (IF cur # <<>> THEN <<cur>> ELSE <<>>) \o FieldsFrom(s, p + 1, <<>>)
         ELSE FieldsFrom(s, p + 1, Append(cur, s[p]))

Fields(s) == FieldsFrom(s, 1, <<>>)

\* strings.Index(s, sub): the 0-based position of the first occurrence, or -1
Index(s, sub) ==
    LET at == {i \in 0..(Len(s) - Len(sub)) : SubSeq(s, i + 1, i + Len(sub)) = sub}
    IN  IF at = {} THEN -1 ELSE CHOOSE i \in at : \A j \in at : i <= j

\* strings.Contains
Contains(s, sub) == Index(s, sub) >= 0

\* strings.HasPrefix
HasPrefix(s, prefix) == Len(s) >= Len(prefix) /\ SubSeq(s, 1, Len(prefix)) = prefix

\* strconv.Itoa for n >= 0, as used by the %d verb of fmt.Sprintf
Digit(d) == CASE d = 0 -> "0" [] d = 1 -> "1" [] d = 2 -> "2" [] d = 3 -> "3"
              [] d = 4 -> "4" [] d = 5 -> "5" [] d = 6 -> "6" [] d = 7 -> "7"
              [] d = 8 -> "8" [] d = 9 -> "9"

RECURSIVE Itoa(_)
Itoa(n) == IF n < 10 THEN <<Digit(n)>> ELSE Itoa(n \div 10) \o <<Digit(n % 10)>>

---------------------------------------------------------------------------
(* The header pattern (?m)^##\s+(.+)$ of splitIntoChunks *)

\* ^ in multi-line mode, at the 0-based offset p
AtLineStart(s, p) == p = 0 \/ s[p] = NL

\* length of the run of white space starting at offset q
RECURSIVE WsRun(_, _)
WsRun(s, q) == IF q < Len(s) /\ IsSpace(s[q + 1]) THEN 1 + WsRun(s, q + 1) ELSE 0

\* offset of the end of the line that holds offset q
RECURSIVE LineEnd(_, _)
LineEnd(s, q) == IF q < Len(s) /\ s[q + 1] # NL THEN LineEnd(s, q + 1) ELSE q

\* The lengths \s+ may take so that (.+) finds a character on the same line.
\* \s+ is greedy: the regexp engine prefers the longest of them.
WsChoices(s, p) ==
    {l \in 1..WsRun(s, p + 2) : p + 2 + l < Len(s) /\ s[p + 2 + l + 1] # NL}

MaxOf(S) == CHOOSE x \in S : \A y \in S : y <= x

\* the pattern matches at offset p
HeaderMatchesAt(s, p) ==
    /\ AtLineStart(s, p)
    /\ p + 2 <= Len(s)
    /\ s[p + 1] = "#" /\ s[p + 2] = "#"
    /\ WsChoices(s, p) # {}

\* the match at offset p: [start, end) and the start of the (.+) group
HeaderMatch(s, p) ==
    LET t == p + 2 + MaxOf(WsChoices(s, p))
    IN  [start |-> p, title |-> t, end |-> LineEnd(s, t)]

\* regexp.FindAllStringSubmatchIndex: leftmost matches, non-overlapping
RECURSIVE FindAllHeaders(_, _)
FindAllHeaders(s, from) ==
    IF from >= Len(s) THEN <<>>
    ELSE IF HeaderMatchesAt(s, from)
         THEN LET m == HeaderMatch(s, from)
              IN  <<m>> \o FindAllHeaders(s, m.end)
         ELSE FindAllHeaders(s, from + 1)

\* headerPattern.FindAllStringSubmatch(content, -1): header[1] of each match
HeaderTitles(s) ==
    LET ms == FindAllHeaders(s, 0)
    IN  [i \in 1..Len(ms) |-> Slice(s, ms[i].title, ms[i].end)]

\* headerPattern.Split(content, -1): the text between the matches.  An empty
\* content yields one empty piece; no match of this pattern is empty, so the
\* text after the last match is always a piece.
HeaderSplit(s) ==
    LET ms == FindAllHeaders(s, 0)
    IN  [i \in 1..(Len(ms) + 1) |->
            Slice(s, IF i = 1 THEN 0 ELSE ms[i - 1].end,
                     IF i = Len(ms) + 1 THEN Len(s) ELSE ms[i].start)]

---------------------------------------------------------------------------
(* The chunker *)

Ellipsis == <<".", ".", ".">>

\* truncateContent(content, maxLen)
truncateContent(content, max) ==
    IF Len(content) <= max THEN content
    ELSE Slice(content, 0, max) \o Ellipsis

\* the loop of splitLongContent over paragraphs[k..], with its two accumulators
RECURSIVE SplitLoop(_, _, _, _, _)
SplitLoop(paragraphs, k, acc, current, max) ==
    IF k > Len(paragraphs)
    THEN IF current # <<>> THEN Append(acc, TrimSpace(current)) ELSE acc
    ELSE LET p == paragraphs[k]
         IN  IF Len(current) + Len(p) > max /\ current # <<>>
             THEN SplitLoop(paragraphs, k + 1, Append(acc, TrimSpace(current)), p, max)
             ELSE SplitLoop(paragraphs, k + 1, acc,
                            (IF current # <<>> THEN current \o <<NL, NL>> ELSE current) \o p,
                            max)

\* a splitLongContent that never flushes the buffer left after the loop: the
\* last part of a long content is lost
splitLongContentNoFlush(content, max) ==
    IF Len(content) <= max THEN <<content>>
    ELSE LET parts == SplitLoop(SplitParagraphs(content), 1, <<>>, <<>>, max)
         IN  SubSeq(parts, 1, Len(parts) - 1)

\* splitLongContent(content, maxLen)
splitLongContent(content, max) ==
    IF Len(content) <= max THEN <<content>>
    ELSE SplitLoop(SplitParagraphs(content), 1, <<>>, <<>>, max)

\* fmt.Sprintf("chunk_%d", n)
ChunkID(n) == <<"chunk_">> \o Itoa(n)

\* fmt.Sprintf(" (part %d)", n)
PartSuffix(n) == <<SP, "(", "p", "a", "r", "t", SP>> \o Itoa(n) \o <<")">>

NoEmbedding == <<>>

Chunk(id, chapterID, chapterName, section, content, locale) ==
    [ID |-> id, ChapterID |-> chapterID, ChapterName |-> chapterName,
     Section |-> section, Content |-> content, Embedding |-> NoEmbedding,
     Locale |-> locale]

Introduction == <<"I", "n", "t", "r", "o", "d", "u", "c", "t", "i", "o", "n">>

\* the chunks of one section: the inner loop of splitIntoChunks
SectionChunks(name, parts, chapterID, chapterName, locale, counter) ==
    [j \in 1..Len(parts) |->
        Chunk(ChunkID(counter + j), chapterID, chapterName,
              name \o (IF Len(parts) > 1 THEN PartSuffix(j) ELSE <<>>),
              parts[j], locale)]

\* the loop of splitIntoChunks over headers[i..]; st = [chunks, idCounter]
RECURSIVE SectionsLoop(_, _, _, _, _, _, _, _)
SectionsLoop(sections, headers, i, chapterID, chapterName, locale, max, st) ==
    IF i > Len(headers) THEN st
    ELSE LET sectionContent == IF i + 1 <= Len(sections)
                               THEN TrimSpace(sections[i + 1]) ELSE <<>>
         IN  IF sectionContent = <<>>
             THEN SectionsLoop(sections, headers, i + 1, chapterID, chapterName,
                               locale, max, st)
             ELSE LET parts == splitLongContent(sectionContent, max)
                  IN  SectionsLoop(sections, headers, i + 1, chapterID, chapterName,
                                   locale, max,
                                   [chunks |-> st.chunks \o
                                        SectionChunks(headers[i], parts, chapterID,
                                                      chapterName, locale, st.idCounter),
                                    idCounter |-> st.idCounter + Len(parts)])

\* splitIntoChunks(content, chapterID, chapterName, locale, idCounter) with the
\* maximum it passes on; the result holds the chunks and *idCounter afterwards
splitIntoChunks(content, chapterID, chapterName, locale, idCounter) ==
    LET sections == HeaderSplit(content)
        headers  == HeaderTitles(content)
        intro    == IF Len(sections) > 0 /\ TrimSpace(sections[1]) # <<>>
                    THEN [chunks |-> <<Chunk(ChunkID(idCounter + 1), chapterID,
                                             chapterName, Introduction,
                                             truncateContent(TrimSpace(sections[1]), maxLen),
                                             locale)>>,
                          idCounter |-> idCounter + 1]
                    ELSE [chunks |-> <<>>, idCounter |-> idCounter]
    IN  SectionsLoop(sections, headers, 1, chapterID, chapterName, locale, maxLen, intro)

---------------------------------------------------------------------------
(* The book directory and handleBuildSemanticIndex's chunk list *)

\* insertion of chapter c into a list sorted by Order (sort.Slice with the
\* less function chapters[i].Order < chapters[j].Order)
RECURSIVE InsertByOrder(_, _)
InsertByOrder(sorted, c) ==
    IF sorted = <<>> THEN <<c>>
    ELSE IF c.Order < Head(sorted).Order THEN <<c>> \o sorted
         ELSE <<Head(sorted)>> \o InsertByOrder(Tail(sorted), c)

RECURSIVE SortByOrder(_)
SortByOrder(cs) ==
    IF cs = <<>> THEN <<>>
    ELSE InsertByOrder(SortByOrder(SubSeq(cs, 1, Len(cs) - 1)), cs[Len(cs)])

\* ParsedChapters, were the first file that does not parse to end the loop
RECURSIVE ParsedChaptersUntilBad(_)
ParsedChaptersUntilBad(files) ==
    IF files = <<>> \/ ~Head(files).ok THEN <<>>
    ELSE <<Head(files).chapter>> \o ParsedChaptersUntilBad(Tail(files))

\* the files of a locale directory that parse, in directory order
RECURSIVE ParsedChapters(_)
ParsedChapters(files) ==
    IF files = <<>> THEN <<>>
    ELSE (IF Head(files).ok THEN <<Head(files).chapter>> ELSE <<>>)
         \o ParsedChapters(Tail(files))

\* Parser.ListChapters(locale): err when the directory cannot be read
ListChapters(dir, locale) ==
    IF locale \notin DOMAIN dir
    THEN [err |-> TRUE, chapters |-> <<>>]
    ELSE [err |-> FALSE, chapters |-> SortByOrder(ParsedChapters(dir[locale]))]

\* the inner loop of handleBuildSemanticIndex over chapters[i..] of one locale
RECURSIVE ChaptersLoop(_, _, _, _)
ChaptersLoop(chapters, i, locale, st) ==
    IF i > Len(chapters) THEN st
    ELSE LET r == splitIntoChunks(chapters[i].Content, chapters[i].ID,
                                  chapters[i].Name, locale, st.idCounter)
         IN  ChaptersLoop(chapters, i + 1, locale,
                          [err |-> FALSE, chunks |-> st.chunks \o r.chunks,
                           idCounter |-> r.idCounter])

\* the outer loop of handleBuildSemanticIndex over locales[i..]
RECURSIVE LocalesLoop(_, _, _, _)
LocalesLoop(dir, locales, i, st) ==
    IF i > Len(locales) THEN st
    ELSE LET l == ListChapters(dir, locales[i])
         IN  IF l.err THEN [st EXCEPT !.err = TRUE]
             ELSE LocalesLoop(dir, locales, i + 1,
                              ChaptersLoop(l.chapters, 1, locales[i], st))

\* the value handleBuildSemanticIndex starts chunkID at, once per invocation
FirstChunkID == 0

\* allChunks of handleBuildSemanticIndex for the request's locale parameter
BuildChunks(dir, localeParam) ==
    LocalesLoop(dir, IF localeParam = "all" THEN <<"es", "en">> ELSE <<localeParam>>,
                1, [err |-> FALSE, chunks |-> <<>>, idCounter |-> FirstChunkID])

---------------------------------------------------------------------------
(* Similarity and the vector store's search *)

RECURSIVE SumTo(_, _, _)
SumTo(a, b, n) == IF n = 0 THEN 0 ELSE SumTo(a, b, n - 1) + a[n] * b[n]

Abs(x) == IF x < 0 THEN -x ELSE x

\* float64 arithmetic with a significand of Precision bits instead of 53,
\* rounding to nearest, ties to even.  A positive value is the fraction
\* num/den with den a power of two and 2^(Precision-1) <= num < 2^Precision.
Pow2(n) == 2 ^ n

\* the integer nearest to n/d, the even one of two that are as near
RoundHalfEven(n, d) ==
    LET f == n \div d
        r == n % d
    IN  IF 2 * r > d \/ (2 * r = d /\ f % 2 = 1) THEN f + 1 ELSE f

\* a significand that rounding carried to 2^Precision
Normalised(m, j) ==
    IF m = Pow2(Precision) /\ j > 0 THEN [num |-> Pow2(Precision - 1), den |-> Pow2(j - 1)]
    ELSE [num |-> m, den |-> Pow2(j)]

\* the least j >= from with num/den * 2^j >= 2^(Precision-1)
RECURSIVE ScaleOf(_, _, _)
ScaleOf(num, den, from) ==
    IF num * Pow2(from) >= Pow2(Precision - 1) * den THEN from
    ELSE ScaleOf(num, den, from + 1)

\* the float nearest to num/den, for 0 < num/den < 2^Precision
RoundFloat(num, den) ==
    LET j == ScaleOf(num, den, 0)
    IN  Normalised(RoundHalfEven(num * Pow2(j), den), j)

\* math.Sqrt(n) for an integer n >= 1: the float nearest to the square root
Sqrt(n) ==
    LET j == ScaleOf(n, Pow2(Precision - 1), 0) \div 2
        k == IF n * Pow2(2 * j) >= Pow2(2 * Precision - 2) THEN j ELSE j + 1
        t == 4 * n * Pow2(2 * k)
        m == CHOOSE x \in Pow2(Precision - 1)..Pow2(Precision) :
                 (2 * x - 1) * (2 * x - 1) < t /\ t < (2 * x + 1) * (2 * x + 1)
    IN  Normalised(m, k)

\* the square roots of the integers the sums of squares of the model's
\* vectors can be
SqrtTable == [n \in 1..Pow2(Precision - 1) |-> Sqrt(n)]

\* A score is the fraction num/den, den > 0.
ZeroScore == [num |-> 0, den |-> 1]

\* cosineSimilarity(a, b).  The components of the model's vectors are small
\* integers, so the products and the three sums are exact; the two square
\* roots, their product and the quotient are rounded.
cosineSimilarity(a, b) ==
    IF Len(a) # Len(b) THEN ZeroScore
    ELSE LET dotProduct == SumTo(a, b, Len(a))
             normA == SumTo(a, a, Len(a))
             normB == SumTo(b, b, Len(b))
             prod == RoundFloat(SqrtTable[normA].num * SqrtTable[normB].num,
                                SqrtTable[normA].den * SqrtTable[normB].den)
             quot == RoundFloat(Abs(dotProduct) * prod.den, prod.num)
         IN  IF normA = 0 \/ normB = 0 THEN ZeroScore
             ELSE IF dotProduct = 0 THEN ZeroScore
             ELSE [num |-> IF dotProduct < 0 THEN -quot.num ELSE quot.num,
                   den |-> quot.den]

\* x > y on scores
ScoreGreater(x, y) == x.num * y.den > y.num * x.den

\* ScoreChunks, were a chunk scored 0 left out of the ranking
RECURSIVE ScoreChunksDropZero(_, _, _)
ScoreChunksDropZero(store, queryEmbedding, locale) ==
    IF store = <<>> THEN <<>>
    ELSE LET chunk == Head(store)
             rest  == ScoreChunksDropZero(Tail(store), queryEmbedding, locale)
         IN  IF locale # "" /\ chunk.Locale # locale THEN rest
             ELSE IF cosineSimilarity(queryEmbedding, chunk.Embedding) = ZeroScore THEN rest
             ELSE <<[chunk |-> chunk,
                     score |-> cosineSimilarity(queryEmbedding, chunk.Embedding)]>> \o rest

\* the first loop of VectorStore.Search: filter by locale and score
RECURSIVE ScoreChunks(_, _, _)
ScoreChunks(store, queryEmbedding, locale) ==
    IF store = <<>> THEN <<>>
    ELSE LET chunk == Head(store)
             rest  == ScoreChunks(Tail(store), queryEmbedding, locale)
         IN  IF locale # "" /\ chunk.Locale # locale THEN rest
             ELSE <<[chunk |-> chunk,
                     score |-> cosineSimilarity(queryEmbedding, chunk.Embedding)]>> \o rest

Swap(r, i, j) == [r EXCEPT ![i] = r[j], ![j] = r[i]]

\* the loop over j of the sort in VectorStore.Search
RECURSIVE SortInner(_, _, _)
SortInner(r, i, j) ==
    IF j > Len(r) THEN r
    ELSE SortInner(IF ScoreGreater(r[j].score, r[i].score) THEN Swap(r, i, j) ELSE r,
                   i, j + 1)

\* the loop over i of the sort in VectorStore.Search
RECURSIVE SortOuter(_, _)
SortOuter(r, i) == IF i > Len(r) THEN r ELSE SortOuter(SortInner(r, i, i + 1), i + 1)

SemanticResult(r) ==
    [ChapterID |-> r.chunk.ChapterID, ChapterName |-> r.chunk.ChapterName,
     Section |-> r.chunk.Section, Content |-> r.chunk.Content,
     Score |-> r.score, Locale |-> r.chunk.Locale]

\* the "take top K" step: results[:topK] panics (slice bounds out of range)
\* when topK is negative
TakeTopK(results, topK) ==
    IF Len(results) > topK
    THEN IF topK < 0 THEN [panic |-> TRUE, results |-> <<>>]
         ELSE [panic |-> FALSE, results |-> SubSeq(results, 1, topK)]
    ELSE [panic |-> FALSE, results |-> results]

\* VectorStore.Search(queryEmbedding, locale, topK) on the chunks `store`
VectorStoreSearch(store, queryEmbedding, locale, topK) ==
    LET sorted == SortOuter(ScoreChunks(store, queryEmbedding, locale), 1)
        top    == TakeTopK(sorted, topK)
    IN  [panic |-> top.panic,
         results |-> [i \in 1..Len(top.results) |-> SemanticResult(top.results[i])]]

---------------------------------------------------------------------------
(* The server: goroutines running handlers on the one engine *)

Builders == {1, 2}     \* goroutines running handleBuildSemanticIndex
Readers  == {3}        \* goroutines running the query-path handlers
Procs    == Builders \cup Readers

None == [kind |-> "none"]

\* what the embedding provider answers for a text (a stub: one fixed vector)
EmbeddingOf(text) == <<1, 0>>

\* the request parameters the handlers are invoked with
LocaleParams == {"all", "de", "fr"}
SearchRequests ==
    { [query |-> <<"a">>, locale |-> "es", topK |-> 5],
      [query |-> <<"a">>, locale |-> "", topK |-> -1],
      [query |-> <<>>, locale |-> "es", topK |-> 5] }

\* IndexMutexFree, were IndexChunks to take no lock
IndexMutexIgnored == TRUE

\* sync.Mutex.Lock on indexMutex can proceed
IndexMutexFree == indexMutex = 0

\* sync.RWMutex.Lock on the store's mu can proceed
MuLockFree == muWriter = 0 /\ muReaders = {}

\* MuRLockFree, were the readers to take no lock
MuRLockIgnored == TRUE

\* sync.RWMutex.RLock on the store's mu can proceed
MuRLockFree == muWriter = 0

Goto(p, label) == pc' = [pc EXCEPT ![p] = label]

\* The transport starts a goroutine per request.  Which goroutine serves a
\* request makes no difference: the model gives it to the first idle one.
FirstIdle(p, group) ==
    /\ pc[p] = "idle"
    /\ \A q \in group : pc[q] = "idle" => p <= q

\* the handler has its result and is about to return it
Finish(p, res) ==
    /\ loc' = [loc EXCEPT ![p] = res]
    /\ Goto(p, "return")

\* handleBuildSemanticIndex up to its call of IndexChunks; an unreadable
\* locale directory ends the handler with an error result
handleBuildSemanticIndex(p, localeParam) ==
    /\ FirstIdle(p, Builders)
    /\ nCalls.build < MaxBuilds
    /\ nCalls' = [nCalls EXCEPT !.build = @ + 1]
    /\ LET b == BuildChunks(corpus, localeParam)
       IN  IF b.err
           THEN Finish(p, [kind |-> "readError", op |-> "build"])
           ELSE /\ loc' = [loc EXCEPT ![p] =
                              [kind |-> "index", call |-> nCalls.build + 1,
                               chunks |-> b.chunks, i |-> 0, k |-> 0, failed |-> 0,
                               entryChunks |-> <<>>, entryFlag |-> FALSE]]
                /\ Goto(p, "lock")
    /\ UNCHANGED <<corpus, chunks, muWriter, muReaders, isIndexed, indexMutex,
                   trace, hist, done, nEmbed, body, out, last>>

\* IndexLock, were the flag set before the batches are embedded
IndexLockSetsFlag(p) ==
    /\ pc[p] = "lock"
    /\ indexMutex = 0
    /\ indexMutex' = p
    /\ isIndexed' = TRUE
    /\ loc' = [loc EXCEPT ![p].entryChunks = chunks, ![p].entryFlag = isIndexed]
    /\ Goto(p, "batch")
    /\ UNCHANGED <<corpus, chunks, muWriter, muReaders, nCalls, trace,
                   hist, done, nEmbed, body, out, last>>

\* IndexChunks: e.indexMutex.Lock()
IndexLock(p) ==
    /\ pc[p] = "lock"
    /\ IndexMutexFree
    /\ indexMutex' = p
    /\ loc' = [loc EXCEPT ![p].entryChunks = chunks, ![p].entryFlag = isIndexed]
    /\ Goto(p, "batch")
    /\ UNCHANGED <<corpus, chunks, muWriter, muReaders, isIndexed, nCalls, trace,
                   hist, done, nEmbed, body, out, last>>

BatchEnd(p) ==
    IF loc[p].i + batchSize > Len(loc[p].chunks) THEN Len(loc[p].chunks)
    ELSE loc[p].i + batchSize

BatchEvent(p, ok) ==
    [call |-> loc[p].call, ev |-> "batch", from |-> loc[p].i, to |-> BatchEnd(p),
     ok |-> ok]

\* EmbedBatchOk, were the flag set as soon as a batch is embedded
EmbedBatchOkSetsFlag(p) ==
    /\ pc[p] = "batch"
    /\ loc[p].i < Len(loc[p].chunks)
    /\ loc' = [loc EXCEPT
                 ![p].chunks = [n \in 1..Len(loc[p].chunks) |->
                     IF n > loc[p].i /\ n <= BatchEnd(p)
                     THEN [loc[p].chunks[n] EXCEPT
                              !.Embedding = EmbeddingOf(loc[p].chunks[n].Content)]
                     ELSE loc[p].chunks[n]],
                 ![p].i = @ + batchSize]
    /\ isIndexed' = TRUE
    /\ trace' = Append(trace, BatchEvent(p, TRUE))
    /\ UNCHANGED <<corpus, chunks, muWriter, muReaders, indexMutex, pc,
                   nCalls, hist, done, nEmbed, body, out, last>>

\* IndexChunks: one round of the batch loop whose EmbedBatch call succeeds;
\* the vectors are written into chunks[i..end)
EmbedBatchOk(p) ==
    /\ pc[p] = "batch"
    /\ loc[p].i < Len(loc[p].chunks)
    /\ loc' = [loc EXCEPT
                 ![p].chunks = [n \in 1..Len(loc[p].chunks) |->
                     IF n > loc[p].i /\ n <= BatchEnd(p)
                     THEN [loc[p].chunks[n] EXCEPT
                              !.Embedding = EmbeddingOf(loc[p].chunks[n].Content)]
                     ELSE loc[p].chunks[n]],
                 ![p].i = @ + batchSize]
    /\ trace' = Append(trace, BatchEvent(p, TRUE))
    /\ UNCHANGED <<corpus, chunks, muWriter, muReaders, isIndexed, indexMutex, pc,
                   nCalls, hist, done, nEmbed, body, out, last>>

\* EmbedBatchFail, were the batches embedded so far appended to the store
EmbedBatchFailPartial(p) ==
    /\ pc[p] = "batch"
    /\ loc[p].i < Len(loc[p].chunks)
    /\ loc' = [loc EXCEPT ![p].failed = (loc[p].i \div batchSize) + 1]
    /\ chunks' = chunks \o SubSeq(loc[p].chunks, 1, loc[p].i)
    /\ trace' = Append(trace, [call |-> loc[p].call, ev |-> "batch",
                               from |-> loc[p].i, to |-> loc[p].i, ok |-> FALSE])
    /\ Goto(p, "ret")
    /\ UNCHANGED <<corpus, muWriter, muReaders, isIndexed, indexMutex,
                   nCalls, hist, done, nEmbed, body, out, last>>

\* EmbedBatchFail, were the loop to go on after a failed batch
EmbedBatchFailRetry(p) ==
    /\ pc[p] = "batch"
    /\ loc[p].i < Len(loc[p].chunks)
    /\ loc' = [loc EXCEPT ![p].failed = (loc[p].i \div batchSize) + 1,
                          ![p].i = IF @ + batchSize >= Len(loc[p].chunks)
                                   THEN @ ELSE @ + batchSize]
    /\ trace' = Append(trace, BatchEvent(p, FALSE))
    /\ pc' = [pc EXCEPT ![p] = IF loc[p].i + batchSize >= Len(loc[p].chunks)
                               THEN "ret" ELSE "batch"]
    /\ UNCHANGED <<corpus, chunks, muWriter, muReaders, isIndexed, indexMutex,
                   nCalls, hist, done, nEmbed, body, out, last>>

\* IndexChunks: a round of the batch loop whose EmbedBatch call fails (a
\* provider error, or the context cancelled): return the error
EmbedBatchFail(p) ==
    /\ pc[p] = "batch"
    /\ loc[p].i < Len(loc[p].chunks)
    /\ loc' = [loc EXCEPT ![p].failed = (loc[p].i \div batchSize) + 1]
    /\ trace' = Append(trace, BatchEvent(p, FALSE))
    /\ Goto(p, "ret")
    /\ UNCHANGED <<corpus, chunks, muWriter, muReaders, isIndexed, indexMutex,
                   nCalls, hist, done, nEmbed, body, out, last>>

\* AddBatch: v.mu.Lock(), reached when the batch loop has ended
AddBatchLock(p) ==
    /\ pc[p] = "batch"
    /\ loc[p].i >= Len(loc[p].chunks)
    /\ MuLockFree
    /\ muWriter' = p
    /\ Goto(p, "append")
    /\ UNCHANGED <<corpus, chunks, muReaders, isIndexed, indexMutex, loc, nCalls,
                   trace, hist, done, nEmbed, body, out, last>>

\* AddBatchAppend, were a chunk whose ID the store holds already left out
AddBatchAppendDedup(p) ==
    /\ pc[p] = "append"
    /\ loc[p].k < Len(loc[p].chunks)
    /\ chunks' = IF \E n \in 1..Len(chunks) :
                        chunks[n].ID = loc[p].chunks[loc[p].k + 1].ID
                 THEN chunks
                 ELSE Append(chunks, loc[p].chunks[loc[p].k + 1])
    /\ loc' = [loc EXCEPT ![p].k = @ + 1]
    /\ UNCHANGED <<corpus, muWriter, muReaders, isIndexed, indexMutex, pc, nCalls,
                   trace, hist, done, nEmbed, body, out, last>>

\* AddBatch: append(v.chunks, chunks...) copies the chunks one after another;
\* the store's slice is not written in one indivisible step
AddBatchAppend(p) ==
    /\ pc[p] = "append"
    /\ loc[p].k < Len(loc[p].chunks)
    /\ chunks' = Append(chunks, loc[p].chunks[loc[p].k + 1])
    /\ loc' = [loc EXCEPT ![p].k = @ + 1]
    /\ UNCHANGED <<corpus, muWriter, muReaders, isIndexed, indexMutex, pc, nCalls,
                   trace, hist, done, nEmbed, body, out, last>>

\* AddBatch: the deferred v.mu.Unlock()
AddBatchUnlock(p) ==
    /\ pc[p] = "append"
    /\ loc[p].k = Len(loc[p].chunks)
    /\ muWriter' = 0
    /\ done' = Append(done, Len(loc[p].chunks))
    /\ trace' = Append(trace, [call |-> loc[p].call, ev |-> "append"])
    /\ Goto(p, "set")
    /\ UNCHANGED <<corpus, chunks, muReaders, isIndexed, indexMutex, loc, nCalls,
                   hist, nEmbed, body, out, last>>

\* IndexChunks: e.isIndexed = true
SetIndexed(p) ==
    /\ pc[p] = "set"
    /\ isIndexed' = TRUE
    /\ trace' = Append(trace, [call |-> loc[p].call, ev |-> "flag"])
    /\ Goto(p, "ret")
    /\ UNCHANGED <<corpus, chunks, muWriter, muReaders, indexMutex, loc, nCalls,
                   hist, done, nEmbed, body, out, last>>

\* IndexChunks returns (nil, or the provider's error): the deferred
\* e.indexMutex.Unlock(), and the handler's result
IndexReturn(p) ==
    /\ pc[p] = "ret"
    /\ indexMutex' = 0
    /\ hist' = Append(hist, [call |-> loc[p].call, n |-> Len(loc[p].chunks),
                             ok |-> loc[p].failed = 0, failed |-> loc[p].failed,
                             entryChunks |-> loc[p].entryChunks,
                             entryFlag |-> loc[p].entryFlag,
                             exitChunks |-> chunks, exitFlag |-> isIndexed,
                             chunks |-> loc[p].chunks])
    /\ Finish(p, [kind |-> IF loc[p].failed = 0 THEN "indexed" ELSE "indexError",
                   op |-> "build"])
    /\ UNCHANGED <<corpus, chunks, muWriter, muReaders, isIndexed, nCalls, trace,
                   done, nEmbed, body, out, last>>

---------------------------------------------------------------------------
(* The query path: handleSemanticSearch and handleSemanticStatus *)

\* handleSemanticSearch up to its call of SemanticEngine.Search
handleSemanticSearch(p, query, locale, topK) ==
    /\ FirstIdle(p, Readers)
    /\ nCalls.read < MaxReads
    /\ nCalls' = [nCalls EXCEPT !.read = @ + 1]
    /\ IF ~isIndexed
       THEN Finish(p, [kind |-> "notIndexed", op |-> "search"])
       ELSE IF query = <<>>
            THEN Finish(p, [kind |-> "queryRequired", op |-> "search"])
            ELSE /\ loc' = [loc EXCEPT ![p] = [kind |-> "running", op |-> "search",
                                               query |-> query, locale |-> locale,
                                               topK |-> topK]]
                 /\ Goto(p, "search")
    /\ UNCHANGED <<corpus, chunks, muWriter, muReaders, isIndexed, indexMutex,
                   trace, hist, done, nEmbed, body, out, last>>

\* SemanticEngine.Search: the test of isIndexed
SearchCheck(p) ==
    /\ pc[p] = "search"
    /\ IF ~isIndexed
       THEN Finish(p, [kind |-> "notIndexed", op |-> "search"])
       ELSE Goto(p, "embed") /\ UNCHANGED loc
    /\ UNCHANGED <<corpus, chunks, muWriter, muReaders, isIndexed, indexMutex,
                   nCalls, trace, hist, done, nEmbed, body, out, last>>

\* SemanticEngine.Search: e.client.Embed(ctx, query) succeeds
EmbedQueryOk(p) ==
    /\ pc[p] = "embed"
    /\ nEmbed' = nEmbed + 1
    /\ Goto(p, "rlock")
    /\ UNCHANGED <<corpus, chunks, muWriter, muReaders, isIndexed, indexMutex, loc,
                   nCalls, trace, hist, done, body, out, last>>

\* SemanticEngine.Search: e.client.Embed(ctx, query) fails
EmbedQueryFail(p) ==
    /\ pc[p] = "embed"
    /\ nEmbed' = nEmbed + 1
    /\ Finish(p, [kind |-> "searchError", op |-> "search"])
    /\ UNCHANGED <<corpus, chunks, muWriter, muReaders, isIndexed, indexMutex,
                   nCalls, trace, hist, done, body, out, last>>

\* handleSemanticStatus: semanticEngine.IsIndexed()
handleSemanticStatus(p) ==
    /\ FirstIdle(p, Readers)
    /\ nCalls.read < MaxReads
    /\ nCalls' = [nCalls EXCEPT !.read = @ + 1]
    /\ loc' = [loc EXCEPT ![p] = [kind |-> "running", op |-> "status",
                                  indexed |-> isIndexed]]
    /\ Goto(p, "rlock")
    /\ UNCHANGED <<corpus, chunks, muWriter, muReaders, isIndexed, indexMutex,
                   trace, hist, done, nEmbed, body, out, last>>

\* VectorStore.Search and VectorStore.Count: v.mu.RLock()
StoreRLock(p) ==
    /\ pc[p] = "rlock"
    /\ MuRLockFree
    /\ muReaders' = muReaders \cup {p}
    /\ Goto(p, "read")
    /\ UNCHANGED <<corpus, chunks, muWriter, isIndexed, indexMutex, loc, nCalls,
                   trace, hist, done, nEmbed, body, out, last>>

\* what the reader computes from the store while it holds the read lock:
\* Search's result, with the number of chunks it ranged over, or Count's
StoreReadResult(p) ==
    IF loc[p].op = "search"
    THEN LET r == VectorStoreSearch(chunks, EmbeddingOf(loc[p].query),
                                    loc[p].locale, loc[p].topK)
         IN  [kind |-> IF r.panic THEN "panic" ELSE "results", op |-> "search",
              locale |-> loc[p].locale, topK |-> loc[p].topK,
              results |-> r.results, count |-> Len(chunks)]
    ELSE [kind |-> "status", op |-> "status", indexed |-> loc[p].indexed,
          count |-> Len(chunks)]

\* StoreRead, were the search to take the chunks it ranks out of the store
StoreReadDrain(p) ==
    /\ pc[p] = "read"
    /\ loc' = [loc EXCEPT ![p] = StoreReadResult(p)]
    /\ chunks' = IF loc[p].op = "search" THEN <<>> ELSE chunks
    /\ Goto(p, "runlock")
    /\ UNCHANGED <<corpus, muWriter, muReaders, isIndexed, indexMutex,
                   nCalls, trace, hist, done, nEmbed, body, out, last>>

\* VectorStore.Search and VectorStore.Count between RLock and RUnlock
StoreRead(p) ==
    /\ pc[p] = "read"
    /\ loc' = [loc EXCEPT ![p] = StoreReadResult(p)]
    /\ Goto(p, "runlock")
    /\ UNCHANGED <<corpus, chunks, muWriter, muReaders, isIndexed, indexMutex,
                   nCalls, trace, hist, done, nEmbed, body, out, last>>

\* the deferred v.mu.RUnlock()
StoreRUnlock(p) ==
    /\ pc[p] = "runlock"
    /\ muReaders' = muReaders \ {p}
    /\ Goto(p, "return")
    /\ UNCHANGED <<corpus, chunks, muWriter, isIndexed, indexMutex, loc, nCalls,
                   trace, hist, done, nEmbed, body, out, last>>

\* the handler returns its result to the transport; the goroutine ends
HandlerReturn(p) ==
    /\ pc[p] = "return"
    /\ loc' = [loc EXCEPT ![p] = None]
    /\ Goto(p, "idle")
    /\ UNCHANGED <<corpus, chunks, muWriter, muReaders, isIndexed, indexMutex,
                   nCalls, trace, hist, done, nEmbed, body, out, last>>

---------------------------------------------------------------------------
(* The specification of the server *)

StrA == <<"a">>

\* "a", then a section "a" of two paragraphs "aa": 3 chunks
BodyA == <<"a", NL, "#", "#", SP, "a", NL, "a", "a", NL, NL, "a", "a">>
\* a section "b" of one paragraph "b": 1 chunk
BodyB == <<"#", "#", SP, "b", NL, "b">>

File(id, order, content) ==
    [ok |-> TRUE, chapter |-> [ID |-> id, Order |-> order, Name |-> id,
                               Content |-> content]]
BadFile == [ok |-> FALSE, chapter |-> [ID |-> "", Order |-> 0, Name |-> "",
                                       Content |-> <<>>]]

\* the book directory the server is started on: two locales with chapters,
\* a file that does not parse, and an empty directory
SampleCorpus ==
    [es |-> <<BadFile, File("ch-a", 1, BodyA)>>,
     en |-> <<File("ch-b", 1, BodyB)>>,
     de |-> <<>>]

InitEngine ==
    /\ chunks = <<>>
    /\ muWriter = 0
    /\ muReaders = {}
    /\ isIndexed = FALSE
    /\ indexMutex = 0
    /\ pc = [p \in Procs |-> "idle"]
    /\ loc = [p \in Procs |-> None]
    /\ nCalls = [build |-> 0, read |-> 0]
    /\ trace = <<>>
    /\ nEmbed = 0
    /\ hist = <<>>
    /\ done = <<>>

Init ==
    /\ corpus = SampleCorpus
    /\ InitEngine
    /\ body = <<>>
    /\ out = None
    /\ last = None

Next ==
    \/ \E p \in Builders, l \in LocaleParams : handleBuildSemanticIndex(p, l)
    \/ \E p \in Builders : IndexLock(p)
    \/ \E p \in Builders : EmbedBatchOk(p)
    \/ \E p \in Builders : EmbedBatchFail(p)
    \/ \E p \in Builders : AddBatchLock(p)
    \/ \E p \in Builders : AddBatchAppend(p)
    \/ \E p \in Builders : AddBatchUnlock(p)
    \/ \E p \in Builders : SetIndexed(p)
    \/ \E p \in Builders : IndexReturn(p)
    \/ \E p \in Readers, r \in SearchRequests :
          handleSemanticSearch(p, r.query, r.locale, r.topK)
    \/ \E p \in Readers : SearchCheck(p)
    \/ \E p \in Readers : EmbedQueryOk(p)
    \/ \E p \in Readers : EmbedQueryFail(p)
    \/ \E p \in Readers : handleSemanticStatus(p)
    \/ \E p \in Readers : StoreRLock(p)
    \/ \E p \in Readers : StoreRead(p)
    \/ \E p \in Readers : StoreRUnlock(p)
    \/ \E p \in Procs : HandlerReturn(p)

Spec == Init /\ [][Next]_vars

---------------------------------------------------------------------------
(* A vector store used directly by one caller.  With one caller the locks   *)
(* of the store are always free: a call is one step, and the caller takes   *)
(* the result before it calls again.                                        *)

StoreVectors == {<<>>, <<1, 0>>, <<1, 1>>, <<-1, 0>>}
StoreLocales == {"es", "en"}
QueryVectors == {<<1, 0>>, <<1, 1>>, <<0, 0>>}
QueryLocales == {"", "es", "en"}
TopKRange    == -1..(MaxStore + 1)

StoreChunk(locale, embedding) ==
    [Chunk(ChunkID(1), "ch", "ch", StrA, StrA, locale) EXCEPT !.Embedding = embedding]

\* VectorStore.Add(chunk)
StoreAdd(locale, embedding) ==
    /\ last = None
    /\ Len(chunks) < MaxStore
    /\ chunks' = Append(chunks, StoreChunk(locale, embedding))
    /\ UNCHANGED <<corpus, muWriter, muReaders, isIndexed, indexMutex, pc, loc,
                   nCalls, trace, nEmbed, hist, done, body, out, last>>

\* VectorStore.Clear()
StoreClear ==
    /\ last = None
    /\ chunks # <<>>
    /\ chunks' = <<>>
    /\ UNCHANGED <<corpus, muWriter, muReaders, isIndexed, indexMutex, pc, loc,
                   nCalls, trace, nEmbed, hist, done, body, out, last>>

\* VectorStore.Search(queryEmbedding, locale, topK)
StoreSearch(queryEmbedding, locale, topK) ==
    /\ last = None
    /\ LET r == VectorStoreSearch(chunks, queryEmbedding, locale, topK)
       IN  last' = [kind |-> IF r.panic THEN "panic" ELSE "results",
                    query |-> queryEmbedding, locale |-> locale, topK |-> topK,
                    results |-> r.results]
    /\ UNCHANGED <<corpus, chunks, muWriter, muReaders, isIndexed, indexMutex, pc,
                   loc, nCalls, trace, nEmbed, hist, done, body, out>>

\* VectorStore.Count()
StoreCount ==
    /\ last = None
    /\ last' = [kind |-> "count", count |-> Len(chunks)]
    /\ UNCHANGED <<corpus, chunks, muWriter, muReaders, isIndexed, indexMutex, pc,
                   loc, nCalls, trace, nEmbed, hist, done, body, out>>

\* the caller takes the result
StoreReturn ==
    /\ last # None
    /\ last' = None
    /\ UNCHANGED <<corpus, chunks, muWriter, muReaders, isIndexed, indexMutex, pc,
                   loc, nCalls, trace, nEmbed, hist, done, body, out>>

NextStore ==
    \/ \E l \in StoreLocales, e \in StoreVectors : StoreAdd(l, e)
    \/ StoreClear
    \/ \E q \in QueryVectors, l \in QueryLocales, k \in TopKRange : StoreSearch(q, l, k)
    \/ StoreCount
    \/ StoreReturn

SpecStore == Init /\ [][NextStore]_vars

---------------------------------------------------------------------------
(* The chunker applied to bodies typed piece by piece *)

HeadingLine == <<"#", "#", SP, "a", NL>>

ParagraphBreak == <<NL, NL>>

Pieces == {HeadingLine, ParagraphBreak, <<"a">>, <<NL>>, <<SP>>, <<"#">>}

\* the values *idCounter has when splitIntoChunks is called
CounterValues == {0, 8}

RECURSIVE Flatten(_)
Flatten(ps) == IF ps = <<>> THEN <<>> ELSE Head(ps) \o Flatten(Tail(ps))

\* the text of the body typed so far
BodyText == Flatten(body)

TypePiece(piece) ==
    /\ out = None
    /\ Len(body) < MaxPieces
    /\ body' = Append(body, piece)
    /\ UNCHANGED <<corpus, chunks, muWriter, muReaders, isIndexed, indexMutex, pc,
                   loc, nCalls, trace, nEmbed, hist, done, out, last>>

\* one call splitIntoChunks(chapter.Content, chapter.ID, chapter.Name, locale, &chunkID)
SplitBody(idCounter) ==
    /\ out = None
    /\ LET r == splitIntoChunks(BodyText, "ch", "ch", "es", idCounter)
       IN  out' = [kind |-> "chunks", from |-> idCounter, chunks |-> r.chunks,
                   idCounter |-> r.idCounter]
    /\ UNCHANGED <<corpus, chunks, muWriter, muReaders, isIndexed, indexMutex, pc,
                   loc, nCalls, trace, nEmbed, hist, done, body, last>>

\* the next document
NewBody ==
    /\ out # None
    /\ out' = None
    /\ body' = <<>>
    /\ UNCHANGED <<corpus, chunks, muWriter, muReaders, isIndexed, indexMutex, pc,
                   loc, nCalls, trace, nEmbed, hist, done, last>>

NextChunk ==
    \/ \E piece \in Pieces : TypePiece(piece)
    \/ \E c \in CounterValues : SplitBody(c)
    \/ NewBody

SpecChunk == Init /\ [][NextChunk]_vars

---------------------------------------------------------------------------
(* The book parser: Parser.ListChapters, Parser.Search *)

\* the number of leading "#" of a line
RECURSIVE HashRun(_, _)
HashRun(line, q) == IF q < Len(line) /\ line[q + 1] = "#" THEN 1 + HashRun(line, q + 1) ELSE 0

\* the deepest heading level of the pattern ^#{1,6}\s+(.+)$
MaxHeaderLevel == 6

\* headerPattern.FindStringSubmatch(line) for ^#{1,6}\s+(.+)$ on one line: 1
\* to 6 "#", white space, a title of at least one character.  \s+ is greedy
\* and gives its last character back when nothing follows the white space.
LineHeader(line) ==
    LET h == HashRun(line, 0)
        w == WsRun(line, h)
    IN  IF h >= 1 /\ h <= MaxHeaderLevel /\ w >= 1 /\ (Len(line) > h + w \/ w >= 2)
        THEN [ok |-> TRUE,
              title |-> IF Len(line) > h + w THEN Slice(line, h + w, Len(line))
                        ELSE <<line[Len(line)]>>]
        ELSE [ok |-> FALSE, title |-> <<>>]

\* sort.Slice(xs, less) "is not guaranteed to be stable": every order of xs
\* in which no element is before one that is less than it; rest is the set of
\* the indices still to place, lt the pairs <<i, j>> with less(xs[i], xs[j])
RECURSIVE SortSliceFrom(_, _, _)
SortSliceFrom(xs, rest, lt) ==
    IF rest = {} THEN {<<>>}
    ELSE LET first == {i \in rest : \A j \in rest : <<j, i>> \notin lt}
         IN  UNION {{<<xs[i]>> \o t : t \in SortSliceFrom(xs, rest \ {i}, lt)} :
                    i \in first}

SortSlice(xs, lt) == SortSliceFrom(xs, DOMAIN xs, lt)

IndexPairs(xs) == (DOMAIN xs) \X (DOMAIN xs)

\* the less function of ListChapters
OrderLess(a, b) == a.Order < b.Order

OrderPairs(xs) == {ij \in IndexPairs(xs) : OrderLess(xs[ij[1]], xs[ij[2]])}

\* what Parser.ListChapters(locale) can return
ListChaptersOutcomes(dir, locale) ==
    IF locale \notin DOMAIN dir
    THEN {[err |-> TRUE, chapters |-> <<>>]}
    ELSE {[err |-> FALSE, chapters |-> cs] :
             cs \in SortSlice(ParsedChapters(dir[locale]), OrderPairs(ParsedChapters(dir[locale])))}

\* the longest snippet a hit shows of its line without the ellipsis
snippetLen == 3

\* the number of hits Search returns at most
searchLimit == 2

\* relevance = float64(matchCount) / float64(len(queryWords)), kept as the
\* fraction: all hits of one search have the same denominator
Relevance(matchCount, queryWords) == [num |-> matchCount, den |-> Len(queryWords)]

\* RelevanceGreater, were the comparison the other way round
RelevanceLess(a, b) == a.Relevance.num * b.Relevance.den < b.Relevance.num * a.Relevance.den

\* results[i].Relevance > results[j].Relevance
RelevanceGreater(a, b) == a.Relevance.num * b.Relevance.den > b.Relevance.num * a.Relevance.den

RelevancePairs(xs) == {ij \in IndexPairs(xs) : RelevanceGreater(xs[ij[1]], xs[ij[2]])}

\* the inner loop of Search over queryWords: one count per word of the query
MatchCount(lineLower, queryWords) ==
    Cardinality({i \in DOMAIN queryWords : Contains(lineLower, queryWords[i])})

SearchResult(chapter, section, line, lineNum, relevance, locale) ==
    [ChapterID |-> chapter.ID, ChapterName |-> chapter.Name, Section |-> section,
     Snippet |-> IF Len(line) > snippetLen
                 THEN Slice(line, 0, snippetLen) \o Ellipsis ELSE line,
     LineNumber |-> lineNum, Relevance |-> relevance, Locale |-> locale]

\* the loop of Search over the lines[n..] of one chapter
RECURSIVE ScanChapter(_, _, _, _, _, _)
ScanChapter(chapter, lines, n, currentSection, queryWords, locale) ==
    IF n > Len(lines) THEN <<>>
    ELSE LET line == lines[n]
             h == LineHeader(line)
             section == IF h.ok THEN h.title ELSE currentSection
             matchCount == MatchCount(ToLower(line), queryWords)
         IN  (IF matchCount > 0
              THEN <<SearchResult(chapter, section, line, n,
                                  Relevance(matchCount, queryWords), locale)>>
              ELSE <<>>)
             \o ScanChapter(chapter, lines, n + 1, section, queryWords, locale)

\* the loop of Search over chapters[i..]
RECURSIVE ScanChapters(_, _, _, _)
ScanChapters(chapters, i, queryWords, locale) ==
    IF i > Len(chapters) THEN <<>>
    ELSE ScanChapter(chapters[i], ScanLines(chapters[i].Content), 1, <<>>,
                     queryWords, locale)
         \o ScanChapters(chapters, i + 1, queryWords, locale)

\* the hits of Search in the order it comes upon them, before the sort
SearchHits(chapters, query, locale) ==
    ScanChapters(chapters, 1, Fields(ToLower(query)), locale)

\* LimitResults, were the results never cut
LimitResultsAll(results) == results

\* results[:20] when there are more
LimitResults(results) ==
    IF Len(results) > searchLimit THEN SubSeq(results, 1, searchLimit) ELSE results

---------------------------------------------------------------------------
(* The book read by one caller: a directory of chapter files, listed and    *)
(* searched.                                                                *)

StrB == <<"b">>

\* chapter bodies: lines holding the words a and b in both cases, a heading,
\* an empty line, a line longer than a snippet
BookBodies ==
    { <<"a", NL, "A", SP, "b">>,
      <<"#", SP, "b", NL, "a", NL, NL, "b", "b", SP, "a">>,
      <<"a", NL, "a", NL, "a">> }

BookFiles ==
    {BadFile} \cup {File(id, order, content) :
                       id \in {"ch-a", "ch-b"}, order \in {1, 2}, content \in BookBodies}

\* the directories of the locale es: no file, one file, two files
BookDirs ==
    {[es |-> <<>>]} \cup {[es |-> <<f>>] : f \in BookFiles}
                    \cup {[es |-> <<f, g>>] : f \in BookFiles, g \in BookFiles}

BookQueries ==
    { <<"a">>, <<"a", SP, "b">>, <<"B", SP, SP, "a">>, <<"a", SP, "a">>,
      <<"a", SP, "a", SP, "b">>, <<"c">>, <<SP>>, <<"a", "b">> }

BookLocales == {"es", "en"}

InitBook ==
    /\ corpus \in BookDirs
    /\ InitEngine
    /\ body = <<>>
    /\ out = None
    /\ last = None

\* Parser.ListChapters(locale)
BookList(locale) ==
    /\ last = None
    /\ \E l \in ListChaptersOutcomes(corpus, locale) :
          last' = [kind |-> "list", locale |-> locale, err |-> l.err,
                   chapters |-> l.chapters]
    /\ UNCHANGED <<corpus, chunks, muWriter, muReaders, isIndexed, indexMutex, pc,
                   loc, nCalls, trace, nEmbed, hist, done, body, out>>

\* Parser.Search(query, locale); found keeps the hits as they were before the
\* sort
BookSearch(query, locale) ==
    /\ last = None
    /\ \E l \in ListChaptersOutcomes(corpus, locale) :
          IF l.err
          THEN last' = [kind |-> "search", query |-> query, locale |-> locale,
                        err |-> TRUE, found |-> <<>>, results |-> <<>>]
          ELSE LET found == SearchHits(l.chapters, query, locale)
               IN  \E sorted \in SortSlice(found, RelevancePairs(found)) :
                      last' = [kind |-> "search", query |-> query, locale |-> locale,
                               err |-> FALSE, found |-> found,
                               results |-> LimitResults(sorted)]
    /\ UNCHANGED <<corpus, chunks, muWriter, muReaders, isIndexed, indexMutex, pc,
                   loc, nCalls, trace, nEmbed, hist, done, body, out>>

\* the caller takes the result
BookReturn ==
    /\ last # None
    /\ last' = None
    /\ UNCHANGED <<corpus, chunks, muWriter, muReaders, isIndexed, indexMutex, pc,
                   loc, nCalls, trace, nEmbed, hist, done, body, out>>

NextBook ==
    \/ \E l \in BookLocales : BookList(l)
    \/ \E q \in BookQueries, l \in BookLocales : BookSearch(q, l)
    \/ BookReturn

SpecBook == InitBook /\ [][NextBook]_vars

---------------------------------------------------------------------------
(* Parser.generateTagID and Parser.GetSection *)

\* \p{L} and \p{N} restricted to the characters of the model
IsLetterOrDigit(c) == c \in {"a", "b", "A", "B", "x", "1"}

\* strings.ReplaceAll(s, " ", "-")
SpacesToHyphens(s) == [i \in 1..Len(s) |-> IF s[i] = SP THEN "-" ELSE s[i]]

\* ReplaceAllString(s, "") for [^\p{L}\p{N}-]
RECURSIVE StripSpecial(_)
StripSpecial(s) ==
    IF s = <<>> THEN <<>>
    ELSE (IF IsLetterOrDigit(Head(s)) \/ Head(s) = "-" THEN <<Head(s)>> ELSE <<>>)
         \o StripSpecial(Tail(s))

\* ReplaceAllString(s, "-") for -+
RECURSIVE CollapseHyphens(_)
CollapseHyphens(s) ==
    IF Len(s) < 2 THEN s
    ELSE IF s[1] = "-" /\ s[2] = "-" THEN CollapseHyphens(Tail(s))
         ELSE <<Head(s)>> \o CollapseHyphens(Tail(s))

\* strings.Trim(s, "-")
RECURSIVE TrimHyphens(_)
TrimHyphens(s) ==
    IF s # <<>> /\ Head(s) = "-" THEN TrimHyphens(Tail(s))
    ELSE IF s # <<>> /\ s[Len(s)] = "-" THEN TrimHyphens(SubSeq(s, 1, Len(s) - 1))
         ELSE s

\* Parser.generateTagID(title)
generateTagID(title) ==
    TrimHyphens(CollapseHyphens(StripSpecial(SpacesToHyphens(ToLower(title)))))

\* what Parser.GetChapter(chapterID, locale) can return: the first chapter of
\* the listing with the ID
GetChapterOutcomes(dir, chapterID, locale) ==
    {IF l.err THEN [err |-> "list"]
     ELSE LET at == {i \in DOMAIN l.chapters : l.chapters[i].ID = chapterID}
          IN  IF at = {} THEN [err |-> "chapter not found"]
              ELSE [err |-> "", chapter |-> l.chapters[CHOOSE i \in at : \A j \in at : i <= j]] :
     l \in ListChaptersOutcomes(dir, locale)}

\* SectionLoop, were the matching heading line not written to the builder
RECURSIVE SectionLoopNoHeading(_, _, _, _, _)
SectionLoopNoHeading(lines, k, inSection, content, sectionTagID) ==
    IF k > Len(lines) THEN content
    ELSE LET line == lines[k]
             h == LineHeader(line)
         IN  IF h.ok /\ generateTagID(h.title) = sectionTagID
             THEN SectionLoopNoHeading(lines, k + 1, TRUE, content, sectionTagID)
             ELSE IF h.ok /\ inSection THEN content
             ELSE SectionLoopNoHeading(lines, k + 1, inSection,
                              IF inSection THEN content \o line \o <<NL>> ELSE content,
                              sectionTagID)

\* the loop of GetSection over lines[k..]; content is the builder's text
RECURSIVE SectionLoop(_, _, _, _, _)
SectionLoop(lines, k, inSection, content, sectionTagID) ==
    IF k > Len(lines) THEN content
    ELSE LET line == lines[k]
             h == LineHeader(line)
         IN  IF h.ok /\ generateTagID(h.title) = sectionTagID
             THEN SectionLoop(lines, k + 1, TRUE, content \o line \o <<NL>>, sectionTagID)
             ELSE IF h.ok /\ inSection THEN content
             ELSE SectionLoop(lines, k + 1, inSection,
                              IF inSection THEN content \o line \o <<NL>> ELSE content,
                              sectionTagID)

\* Parser.GetSection on the chapter GetChapter found
SectionOf(chapter, sectionTagID) ==
    LET content == SectionLoop(Lines(chapter.Content), 1, FALSE, <<>>, sectionTagID)
    IN  IF content = <<>> THEN [err |-> "section not found", text |-> <<>>]
        ELSE [err |-> "", text |-> TrimSpace(content)]

---------------------------------------------------------------------------
(* Sections read by one caller from a directory of one or two documents *)

\* the lines document bodies are made of: headings of two levels and both
\* cases, a heading with a special character only, text, an empty line, a line
\* of seven "#"
SectionLines ==
    { <<"#", SP, "a">>, <<"#", "#", SP, "A", SP>>, <<"#", SP, "b">>, <<"#", SP, "!">>,
      <<"x">>, <<>>, <<"#", "#", "#", "#", "#", "#", "#", SP, "a">> }

\* the longest body, in lines
MaxLines == 3

RECURSIVE JoinLines(_)
JoinLines(ls) ==
    IF ls = <<>> THEN <<>>
    ELSE IF Len(ls) = 1 THEN ls[1]
    ELSE ls[1] \o <<NL>> \o JoinLines(Tail(ls))

\* bodies as ParseChapter leaves them: without white space at their ends
SectionBodies ==
    {TrimSpace(JoinLines(ls)) : ls \in UNION {[1..n -> SectionLines] : n \in 0..MaxLines}}

\* a second document, of the same id or another one, of an order before,
\* equal to or after that of the first
OtherBody == <<"#", SP, "a", NL, "y">>

SectionDirs ==
    {[es |-> <<File("ch-a", 1, b)>>] : b \in SectionBodies}
    \cup {[es |-> <<File("ch-a", 1, b), File(id, o, OtherBody)>>] :
             b \in SectionBodies, id \in {"ch-a", "ch-b"}, o \in {0, 1, 2}}

SectionIDs == {"ch-a", "ch-b"}
SectionTagIDs == {<<"a">>, <<"b">>, <<>>, <<"x">>}

InitSection ==
    /\ corpus \in SectionDirs
    /\ InitEngine
    /\ body = <<>>
    /\ out = None
    /\ last = None

\* Parser.GetSection(chapterID, sectionTagID, locale)
SectionGet(chapterID, sectionTagID, locale) ==
    /\ last = None
    /\ \E g \in GetChapterOutcomes(corpus, chapterID, locale) :
          last' = IF g.err # ""
                  THEN [kind |-> "section", chapterID |-> chapterID,
                        tagID |-> sectionTagID, locale |-> locale, err |-> g.err,
                        chapter |-> None, text |-> <<>>]
                  ELSE [kind |-> "section", chapterID |-> chapterID,
                        tagID |-> sectionTagID, locale |-> locale,
                        err |-> SectionOf(g.chapter, sectionTagID).err,
                        chapter |-> g.chapter,
                        text |-> SectionOf(g.chapter, sectionTagID).text]
    /\ UNCHANGED <<corpus, chunks, muWriter, muReaders, isIndexed, indexMutex, pc,
                   loc, nCalls, trace, nEmbed, hist, done, body, out>>

NextSection ==
    \/ \E id \in SectionIDs, t \in SectionTagIDs, l \in BookLocales : SectionGet(id, t, l)
    \/ BookReturn

SpecSection == InitSection /\ [][NextSection]_vars

---------------------------------------------------------------------------
(* generateTagID applied to titles typed character by character *)

\* the longest title, in characters
MaxTitle == 4

TitleChars == {"a", "A", "-", SP, TAB, "!"}

\* the title is body; out is its tag id
TypeTitle(c) ==
    /\ out = None
    /\ Len(body) < MaxTitle
    /\ body' = Append(body, c)
    /\ UNCHANGED <<corpus, chunks, muWriter, muReaders, isIndexed, indexMutex, pc,
                   loc, nCalls, trace, nEmbed, hist, done, out, last>>

SlugTitle ==
    /\ out = None
    /\ out' = [kind |-> "tagID", tagID |-> generateTagID(body)]
    /\ UNCHANGED <<corpus, chunks, muWriter, muReaders, isIndexed, indexMutex, pc,
                   loc, nCalls, trace, nEmbed, hist, done, body, last>>

NextSlug ==
    \/ \E c \in TitleChars : TypeTitle(c)
    \/ SlugTitle
    \/ NewBody

SpecSlug == Init /\ [][NextSlug]_vars

---------------------------------------------------------------------------
(* Parser.parseFrontmatter *)

QUOTE == "'"
DQUOTE == "\""

IsQuote(c) == c \in {QUOTE, DQUOTE}
IsDigit(c) == c \in {"0", "1", "2", "3", "4", "5", "6", "7", "8", "9"}

\* the positions (0-based) at which sub occurs in s
Occurrences(s, sub) ==
    {i \in 0..(Len(s) - Len(sub)) : SubSeq(s, i + 1, i + Len(sub)) = sub}

LeastOf(S) == CHOOSE x \in S : \A y \in S : x <= y

\* the first position >= q of s that holds a quote, or -1
NextQuote(s, q) ==
    LET at == {i \in q..(Len(s) - 1) : IsQuote(s[i + 1])}
    IN  IF at = {} THEN -1 ELSE LeastOf(at)

\* key:\s*['"]([^'"]+)['"] matches at position p of s
QuotedMatchesAt(s, key, p) ==
    LET q == p + Len(key) + WsRun(s, p + Len(key))
    IN  /\ p \in Occurrences(s, key)
        /\ q < Len(s) /\ IsQuote(s[q + 1])
        /\ NextQuote(s, q + 1) > q + 1

\* FindStringSubmatch for key:\s*['"]([^'"]+)['"]: the group of the leftmost
\* match; ok is FALSE when there is no match
FindQuoted(s, key) ==
    LET at == {p \in Occurrences(s, key) : QuotedMatchesAt(s, key, p)}
    IN  IF at = {} THEN [ok |-> FALSE, group |-> <<>>]
        ELSE LET q == LeastOf(at) + Len(key) + WsRun(s, LeastOf(at) + Len(key))
             IN  [ok |-> TRUE, group |-> Slice(s, q + 1, NextQuote(s, q + 1))]

\* the number of digits of s from position q on
RECURSIVE DigitRun(_, _)
DigitRun(s, q) == IF q < Len(s) /\ IsDigit(s[q + 1]) THEN 1 + DigitRun(s, q + 1) ELSE 0

DigitValue(c) == CHOOSE d \in 0..9 : Digit(d) = c

\* strconv.Atoi on a run of digits that fits an int
RECURSIVE Atoi(_)
Atoi(s) == IF s = <<>> THEN 0 ELSE 10 * Atoi(SubSeq(s, 1, Len(s) - 1)) + DigitValue(s[Len(s)])

\* FindStringSubmatch for order:\s*(\d+)
FindNumber(s, key) ==
    LET at == {p \in Occurrences(s, key) :
                  DigitRun(s, p + Len(key) + WsRun(s, p + Len(key))) > 0}
    IN  IF at = {} THEN [ok |-> FALSE, group |-> <<>>]
        ELSE LET q == LeastOf(at) + Len(key) + WsRun(s, LeastOf(at) + Len(key))
             IN  [ok |-> TRUE, group |-> Slice(s, q, q + DigitRun(s, q))]

\* the bracket loop of parseFrontmatter from position i on: the position
\* after the "]" that closes the "[" at startPos, or -1
RECURSIVE ArrayEnd(_, _, _)
ArrayEnd(s, i, bracketCount) ==
    IF i >= Len(s) THEN -1
    ELSE IF s[i + 1] = "[" THEN ArrayEnd(s, i + 1, bracketCount + 1)
    ELSE IF s[i + 1] = "]"
         THEN IF bracketCount - 1 = 0 THEN i + 1 ELSE ArrayEnd(s, i + 1, bracketCount - 1)
    ELSE ArrayEnd(s, i + 1, bracketCount)

\* strings.ReplaceAll(content, "'", "\"")
QuotesToDouble(s) == [i \in 1..Len(s) |-> IF s[i] = QUOTE THEN DQUOTE ELSE s[i]]

\* ReplaceAllString for (\s)key: -> $1"key":
RECURSIVE QuoteKeyAfterSpace(_, _)
QuoteKeyAfterSpace(s, key) ==
    IF s = <<>> THEN <<>>
    ELSE IF IsSpace(Head(s)) /\ HasPrefix(Tail(s), key \o <<":">>)
         THEN <<Head(s), DQUOTE>> \o key \o <<DQUOTE, ":">>
              \o QuoteKeyAfterSpace(SubSeq(s, Len(key) + 3, Len(s)), key)
         ELSE <<Head(s)>> \o QuoteKeyAfterSpace(Tail(s), key)

\* ReplaceAllString for {\s*key: -> {"key":
RECURSIVE QuoteKeyAfterBrace(_, _)
QuoteKeyAfterBrace(s, key) ==
    IF s = <<>> THEN <<>>
    ELSE LET w == WsRun(s, 1)
         IN  IF Head(s) = "{" /\ HasPrefix(SubSeq(s, w + 2, Len(s)), key \o <<":">>)
             THEN <<"{", DQUOTE>> \o key \o <<DQUOTE, ":">>
                  \o QuoteKeyAfterBrace(SubSeq(s, w + Len(key) + 3, Len(s)), key)
             ELSE <<Head(s)>> \o QuoteKeyAfterBrace(Tail(s), key)

\* ReplaceAllString for \s+ -> " "
RECURSIVE CollapseSpace(_)
CollapseSpace(s) ==
    IF s = <<>> THEN <<>>
    ELSE IF IsSpace(Head(s)) THEN <<SP>> \o CollapseSpace(SubSeq(s, WsRun(s, 0) + 1, Len(s)))
    ELSE <<Head(s)>> \o CollapseSpace(Tail(s))

KeyName == <<"n", "a", "m", "e">>
KeyTagId == <<"t", "a", "g", "I", "d">>

\* Parser.cleanArrayToJSON
cleanArrayToJSON(content) ==
    CollapseSpace(
      QuoteKeyAfterBrace(
        QuoteKeyAfterBrace(
          QuoteKeyAfterSpace(
            QuoteKeyAfterSpace(QuotesToDouble(content), KeyName),
            KeyTagId),
          KeyName),
        KeyTagId))

\* json.Unmarshal(text, &[]Section), restricted to the characters the cleaned
\* arrays of the model hold: strings without escapes, arrays and objects; a
\* number or a literal cannot occur, so any other character is a syntax error.
\* A value is read at the 0-based position p and yields
\*   ok       the text from p on starts with a value
\*   pos      the position after it
\*   kind     "str", "arr" or "obj"
\*   text     the characters of a string
\*   section  the Section an object decodes to
\*   sections the Sections an array decodes to
\*   typeErr  the value cannot be stored in its Go type (UnmarshalTypeError)
NoSection == [Name |-> <<>>, TagID |-> <<>>]

SyntaxError ==
    [ok |-> FALSE, pos |-> 0, kind |-> "", text |-> <<>>, section |-> NoSection,
     sections |-> <<>>, typeErr |-> FALSE]

JSONValue(pos, kind, text, section, sections, typeErr) ==
    [ok |-> TRUE, pos |-> pos, kind |-> kind, text |-> text, section |-> section,
     sections |-> sections, typeErr |-> typeErr]

SkipSpace(s, p) == p + WsRun(s, p)

CharAt(s, p) == IF p < Len(s) THEN s[p + 1] ELSE ""

\* the case folding by which encoding/json matches a key with a field
FoldChar(c) == IF c = "I" THEN "i" ELSE IF c = "N" THEN "n" ELSE ToLowerChar(c)
Fold(s) == [i \in 1..Len(s) |-> FoldChar(s[i])]

\* the Section after the member key: v of an object has been decoded
SetField(section, key, v) ==
    IF Fold(key) = Fold(KeyName) THEN [section EXCEPT !.Name = v.text]
    ELSE IF Fold(key) = Fold(KeyTagId) THEN [section EXCEPT !.TagID = v.text]
    ELSE section

\* a member key: v that cannot be stored: a string field given an array or
\* an object
FieldTypeErr(key, v) ==
    /\ Fold(key) \in {Fold(KeyName), Fold(KeyTagId)}
    /\ v.kind # "str"

RECURSIVE ParseValue(_, _)
RECURSIVE ParseElements(_, _, _, _)
RECURSIVE ParseMembers(_, _, _, _)

ParseString(s, p) ==
    LET close == {i \in (p + 1)..(Len(s) - 1) : s[i + 1] = DQUOTE}
    IN  IF close = {} THEN SyntaxError
        ELSE JSONValue(LeastOf(close) + 1, "str", Slice(s, p + 1, LeastOf(close)),
                       NoSection, <<>>, FALSE)

\* the elements of an array from position p on, the ones before decoded to
\* sections
ParseElements(s, p, sections, typeErr) ==
    LET v == ParseValue(s, p)
        q == SkipSpace(s, v.pos)
        secs == IF v.kind = "obj" THEN Append(sections, v.section) ELSE sections
        terr == typeErr \/ v.kind # "obj" \/ v.typeErr
    IN  IF ~v.ok THEN SyntaxError
        ELSE IF CharAt(s, q) = "," THEN ParseElements(s, SkipSpace(s, q + 1), secs, terr)
        ELSE IF CharAt(s, q) = "]" THEN JSONValue(q + 1, "arr", <<>>, NoSection, secs, terr)
        ELSE SyntaxError

\* the members of an object from position p on
ParseMembers(s, p, section, typeErr) ==
    LET k == IF CharAt(s, p) = DQUOTE THEN ParseString(s, p) ELSE SyntaxError
        c == SkipSpace(s, k.pos)
        v == ParseValue(s, SkipSpace(s, c + 1))
        q == SkipSpace(s, v.pos)
        sec == IF FieldTypeErr(k.text, v) THEN section ELSE SetField(section, k.text, v)
        terr == typeErr \/ FieldTypeErr(k.text, v)
    IN  IF ~k.ok THEN SyntaxError
        ELSE IF CharAt(s, c) # ":" THEN SyntaxError
        ELSE IF ~v.ok THEN SyntaxError
        ELSE IF CharAt(s, q) = "," THEN ParseMembers(s, SkipSpace(s, q + 1), sec, terr)
        ELSE IF CharAt(s, q) = "}" THEN JSONValue(q + 1, "obj", <<>>, sec, <<>>, terr)
        ELSE SyntaxError

ParseValue(s, p) ==
    IF CharAt(s, p) = DQUOTE THEN ParseString(s, p)
    ELSE IF CharAt(s, p) = "["
         THEN IF CharAt(s, SkipSpace(s, p + 1)) = "]"
              THEN JSONValue(SkipSpace(s, p + 1) + 1, "arr", <<>>, NoSection, <<>>, FALSE)
              ELSE ParseElements(s, SkipSpace(s, p + 1), <<>>, FALSE)
    ELSE IF CharAt(s, p) = "{"
         THEN IF CharAt(s, SkipSpace(s, p + 1)) = "}"
              THEN JSONValue(SkipSpace(s, p + 1) + 1, "obj", <<>>, NoSection, <<>>, FALSE)
              ELSE ParseMembers(s, SkipSpace(s, p + 1), NoSection, FALSE)
    ELSE SyntaxError

\* json.Unmarshal([]byte(jsonContent), &titleList): err is TRUE for a syntax
\* error, for text after the value and for a value of the wrong type
UnmarshalSections(text) ==
    LET v == ParseValue(text, SkipSpace(text, 0))
    IN  IF ~v.ok \/ SkipSpace(text, v.pos) # Len(text) \/ v.kind # "arr" \/ v.typeErr
        THEN [err |-> TRUE, sections |-> <<>>]
        ELSE [err |-> FALSE, sections |-> v.sections]

FrontmatterDelimiter == <<"-", "-", "-">>
DelimiterLen == 3
KeyID == <<"i", "d", ":">>
KeyOrder == <<"o", "r", "d", "e", "r", ":">>
KeyNameColon == <<"n", "a", "m", "e", ":">>
KeyTitleList == <<"t", "i", "t", "l", "e", "L", "i", "s", "t", ":">>

\* the titleList block of parseFrontmatter: the sections decoded from the
\* array after "titleList:", or none when there is no array, it is not
\* closed or it does not decode
TitleListOf(fmContent) ==
    LET titleListStart == Index(fmContent, KeyTitleList)
        arrayStart == Index(Slice(fmContent, titleListStart, Len(fmContent)), <<"[">>)
        startPos == titleListStart + arrayStart
        arrayEnd == ArrayEnd(fmContent, startPos, 0)
        decoded == UnmarshalSections(cleanArrayToJSON(Slice(fmContent, startPos, arrayEnd)))
    IN  IF titleListStart = -1 THEN <<>>
        ELSE IF arrayStart = -1 THEN <<>>
        ELSE IF arrayEnd = -1 THEN <<>>
        ELSE IF decoded.err THEN <<>>
        ELSE decoded.sections

\* the frontmatter struct filled from fmContent
FrontmatterOf(fmContent) ==
    LET idMatch == FindQuoted(fmContent, KeyID)
        orderMatch == FindNumber(fmContent, KeyOrder)
        nameMatch == FindQuoted(fmContent, KeyNameColon)
    IN  [ID |-> IF idMatch.ok THEN idMatch.group ELSE <<>>,
         Order |-> IF orderMatch.ok THEN Atoi(orderMatch.group) ELSE 0,
         Name |-> IF nameMatch.ok THEN nameMatch.group ELSE <<>>,
         TitleList |-> TitleListOf(fmContent)]

NoFrontmatter == [ID |-> <<>>, Order |-> 0, Name |-> <<>>, TitleList |-> <<>>]

ParseFailure(content, msg) ==
    [err |-> TRUE, msg |-> msg, fm |-> NoFrontmatter, fmContent |-> <<>>,
     body |-> content]

\* parseFrontmatter where a section list that does not decode is a failure
parseFrontmatterStrict(content) ==
    LET endIndex == Index(Slice(content, DelimiterLen, Len(content)), FrontmatterDelimiter)
        fmContent == Slice(content, DelimiterLen, endIndex + DelimiterLen)
    IN  IF ~HasPrefix(content, FrontmatterDelimiter)
        THEN ParseFailure(content, "no frontmatter found")
        ELSE IF endIndex = -1 THEN ParseFailure(content, "frontmatter not closed")
        ELSE IF Contains(fmContent, KeyTitleList) /\ TitleListOf(fmContent) = <<>>
        THEN ParseFailure(content, "malformed titleList")
        ELSE [err |-> FALSE, msg |-> "", fm |-> FrontmatterOf(fmContent),
              fmContent |-> fmContent,
              body |-> TrimSpace(Slice(content, endIndex + 2 * DelimiterLen, Len(content)))]

\* Parser.parseFrontmatter: the frontmatter, the body and the error
parseFrontmatter(content) ==
    LET endIndex == Index(Slice(content, DelimiterLen, Len(content)), FrontmatterDelimiter)
        fmContent == Slice(content, DelimiterLen, endIndex + DelimiterLen)
    IN  IF ~HasPrefix(content, FrontmatterDelimiter)
        THEN ParseFailure(content, "no frontmatter found")
        ELSE IF endIndex = -1 THEN ParseFailure(content, "frontmatter not closed")
        ELSE [err |-> FALSE, msg |-> "", fm |-> FrontmatterOf(fmContent),
              fmContent |-> fmContent,
              body |-> TrimSpace(Slice(content, endIndex + 2 * DelimiterLen, Len(content)))]

---------------------------------------------------------------------------
(* The parser alone (SpecParse): parseFrontmatter on raw documents *)

\* what a raw document starts with and what closes its front matter
RawDelimiters == {FrontmatterDelimiter, <<"-", "-">>, <<>>}

\* the scalar fields of the front matter
RawFields ==
    {
     \* "\n"
     <<NL>>,
     \* "\nid: 'x'\norder: 12\nname: "n"\n"
     <<NL, "i", "d", ":", SP, QUOTE, "x", QUOTE, NL, "o", "r", "d", "e", "r",
           ":", SP, "1", "2", NL, "n", "a", "m", "e", ":", SP, DQUOTE, "n",
           DQUOTE, NL>>,
     \* "\nid: x\norder: a\n"
     <<NL, "i", "d", ":", SP, "x", NL, "o", "r", "d", "e", "r", ":", SP, "a", NL>>,
     \* "\nname:'n'\n"
     <<NL, "n", "a", "m", "e", ":", QUOTE, "n", QUOTE, NL>>}

\* the section list of the front matter: none, well formed, unbalanced, malformed,
\* of the wrong type, with a bracket or a delimiter inside a string
RawTitleLists ==
    {
     \* ""
     <<>>,
     \* "titleList: []\n"
     <<"t", "i", "t", "l", "e", "L", "i", "s", "t", ":", SP, "[", "]", NL>>,
     \* "titleList: [{name: 'a', tagId: 'b'}]\n"
     <<"t", "i", "t", "l", "e", "L", "i", "s", "t", ":", SP, "[", "{", "n", "a",
           "m", "e", ":", SP, QUOTE, "a", QUOTE, ",", SP, "t", "a", "g", "I",
           "d", ":", SP, QUOTE, "b", QUOTE, "}", "]", NL>>,
     \* "titleList: [\n { name: 'a', tagId: 'b' },\n {tagId: 'c'}\n]\n"
     <<"t", "i", "t", "l", "e", "L", "i", "s", "t", ":", SP, "[", NL, SP, "{",
           SP, "n", "a", "m", "e", ":", SP, QUOTE, "a", QUOTE, ",", SP, "t",
           "a", "g", "I", "d", ":", SP, QUOTE, "b", QUOTE, SP, "}", ",", NL, SP,
           "{", "t", "a", "g", "I", "d", ":", SP, QUOTE, "c", QUOTE, "}", NL,
           "]", NL>>,
     \* "titleList: [{name: 'a', tagId: 'b'}\n"
     <<"t", "i", "t", "l", "e", "L", "i", "s", "t", ":", SP, "[", "{", "n", "a",
           "m", "e", ":", SP, QUOTE, "a", QUOTE, ",", SP, "t", "a", "g", "I",
           "d", ":", SP, QUOTE, "b", QUOTE, "}", NL>>,
     \* "titleList: [{name: 'a' tagId: 'b'}]\n"
     <<"t", "i", "t", "l", "e", "L", "i", "s", "t", ":", SP, "[", "{", "n", "a",
           "m", "e", ":", SP, QUOTE, "a", QUOTE, SP, "t", "a", "g", "I", "d",
           ":", SP, QUOTE, "b", QUOTE, "}", "]", NL>>,
     \* "titleList: [{name: 'a',}]\n"
     <<"t", "i", "t", "l", "e", "L", "i", "s", "t", ":", SP, "[", "{", "n", "a",
           "m", "e", ":", SP, QUOTE, "a", QUOTE, ",", "}", "]", NL>>,
     \* "titleList: ['a']\n"
     <<"t", "i", "t", "l", "e", "L", "i", "s", "t", ":", SP, "[", QUOTE, "a",
           QUOTE, "]", NL>>,
     \* "titleList: [[{name: 'a'}]]\n"
     <<"t", "i", "t", "l", "e", "L", "i", "s", "t", ":", SP, "[", "[", "{", "n",
           "a", "m", "e", ":", SP, QUOTE, "a", QUOTE, "}", "]", "]", NL>>,
     \* "titleList: [{name: 'a]'}]\n"
     <<"t", "i", "t", "l", "e", "L", "i", "s", "t", ":", SP, "[", "{", "n", "a",
           "m", "e", ":", SP, QUOTE, "a", "]", QUOTE, "}", "]", NL>>,
     \* "titleList: [{name: ['a']}]\n"
     <<"t", "i", "t", "l", "e", "L", "i", "s", "t", ":", SP, "[", "{", "n", "a",
           "m", "e", ":", SP, "[", QUOTE, "a", QUOTE, "]", "}", "]", NL>>,
     \* "titleList: {name: 'a'}\n"
     <<"t", "i", "t", "l", "e", "L", "i", "s", "t", ":", SP, "{", "n", "a", "m",
           "e", ":", SP, QUOTE, "a", QUOTE, "}", NL>>,
     \* "titleList: [{name: 'a', x: 'b'}]\n"
     <<"t", "i", "t", "l", "e", "L", "i", "s", "t", ":", SP, "[", "{", "n", "a",
           "m", "e", ":", SP, QUOTE, "a", QUOTE, ",", SP, "x", ":", SP, QUOTE,
           "b", QUOTE, "}", "]", NL>>,
     \* "titleList: [{name: 'a---b'}]\n"
     <<"t", "i", "t", "l", "e", "L", "i", "s", "t", ":", SP, "[", "{", "n", "a",
           "m", "e", ":", SP, QUOTE, "a", "-", "-", "-", "b", QUOTE, "}", "]", NL>>}

\* the text after the front matter
RawBodies ==
    {
     \* ""
     <<>>,
     \* "\nx\n"
     <<NL, "x", NL>>,
     \* "\n# a\n---\nb"
     <<NL, "#", SP, "a", NL, "-", "-", "-", NL, "b">>}

RawDocuments ==
    {o \o f \o t \o c \o b : o \in RawDelimiters, f \in RawFields, t \in RawTitleLists,
                             c \in RawDelimiters, b \in RawBodies}

InitParse ==
    /\ corpus = <<>>
    /\ InitEngine
    /\ body \in RawDocuments
    /\ out = None /\ last = None

\* ParseChapter has read the file and parses its text
ParseRaw ==
    /\ out = None
    /\ out' = [kind |-> "parsed", content |-> body, result |-> parseFrontmatter(body)]
    /\ UNCHANGED <<corpus, chunks, muWriter, muReaders, isIndexed, indexMutex, pc, loc,
                   nCalls, trace, nEmbed, hist, done, body, last>>

\* the caller takes the result and reads another file
ParseNext ==
    /\ out # None
    /\ \E b \in RawDocuments : body' = b
    /\ out' = None
    /\ UNCHANGED <<corpus, chunks, muWriter, muReaders, isIndexed, indexMutex, pc, loc,
                   nCalls, trace, nEmbed, hist, done, last>>

NextParse == ParseRaw \/ ParseNext

SpecParse == InitParse /\ [][NextParse]_vars

---------------------------------------------------------------------------
(* The local-inference client alone (SpecOllama): OllamaClient.EmbedBatch *)

MaxTexts == 3

BatchTextChars == {"a", "b"}

\* the texts argument of EmbedBatch
BatchTexts == UNION {[1..n -> BatchTextChars] : n \in 0..MaxTexts}

\* what a successful Embed may return: ollamaResp.Embedding
EmbedReplies == {<<1, 0>>, <<0, 1>>, <<>>}

NoError == [failed |-> FALSE, index |-> 0]

\* fmt.Errorf("error embedding text %d: %w", i, err)
EmbedTextError(i) == [failed |-> TRUE, index |-> i]

InitOllama ==
    /\ corpus = <<>>
    /\ InitEngine
    /\ body = <<>>
    /\ out = None
    /\ last = None

\* EmbedBatch is entered: embeddings := make([][]float64, len(texts)).
\* calls lists the Embed calls made, i is the index the loop is at.
EmbedBatchEnter ==
    /\ last = None
    /\ \E texts \in BatchTexts :
          last' = [kind |-> "embedBatch", state |-> "loop", texts |-> texts, i |-> 0,
                   embeddings |-> [k \in 1..Len(texts) |-> NoEmbedding],
                   calls |-> <<>>, isNil |-> FALSE, vectors |-> <<>>, err |-> NoError]
    /\ UNCHANGED <<corpus, chunks, muWriter, muReaders, isIndexed, indexMutex, pc, loc,
                   nCalls, trace, nEmbed, hist, done, body, out>>

\* the call of Embed for texts[i] fails, and the loop goes on with the next
\* text
EmbedErrContinue ==
    /\ last # None /\ last.state = "loop" /\ last.i < Len(last.texts)
    /\ last' = [last EXCEPT
                   !.calls = Append(@, [text |-> last.texts[last.i + 1], ok |-> FALSE,
                                        emb |-> NoEmbedding]),
                   !.i = @ + 1]
    /\ UNCHANGED <<corpus, chunks, muWriter, muReaders, isIndexed, indexMutex, pc, loc,
                   nCalls, trace, nEmbed, hist, done, body, out>>

\* the call of Embed for texts[i] returns a vector: embeddings[i] = emb
EmbedOk ==
    /\ last # None /\ last.state = "loop" /\ last.i < Len(last.texts)
    /\ \E emb \in EmbedReplies :
          last' = [last EXCEPT
                      !.calls = Append(@, [text |-> last.texts[last.i + 1], ok |-> TRUE,
                                           emb |-> emb]),
                      !.embeddings[last.i + 1] = emb,
                      !.i = @ + 1]
    /\ UNCHANGED <<corpus, chunks, muWriter, muReaders, isIndexed, indexMutex, pc, loc,
                   nCalls, trace, nEmbed, hist, done, body, out>>

\* the call of Embed for texts[i] fails (marshalling, the request, the
\* connection, a cancelled context, the reply): return nil and the error
EmbedErr ==
    /\ last # None /\ last.state = "loop" /\ last.i < Len(last.texts)
    /\ last' = [last EXCEPT
                   !.calls = Append(@, [text |-> last.texts[last.i + 1], ok |-> FALSE,
                                        emb |-> NoEmbedding]),
                   !.state = "returned",
                   !.isNil = TRUE,
                   !.vectors = <<>>,
                   !.err = EmbedTextError(last.i)]
    /\ UNCHANGED <<corpus, chunks, muWriter, muReaders, isIndexed, indexMutex, pc, loc,
                   nCalls, trace, nEmbed, hist, done, body, out>>

\* the loop is over: return embeddings, nil
EmbedBatchReturn ==
    /\ last # None /\ last.state = "loop" /\ last.i = Len(last.texts)
    /\ last' = [last EXCEPT !.state = "returned", !.vectors = last.embeddings]
    /\ UNCHANGED <<corpus, chunks, muWriter, muReaders, isIndexed, indexMutex, pc, loc,
                   nCalls, trace, nEmbed, hist, done, body, out>>

\* the caller has the result; the client is called again
EmbedBatchAgain ==
    /\ last # None /\ last.state = "returned"
    /\ last' = None
    /\ UNCHANGED <<corpus, chunks, muWriter, muReaders, isIndexed, indexMutex, pc, loc,
                   nCalls, trace, nEmbed, hist, done, body, out>>

NextOllama ==
    \/ EmbedBatchEnter
    \/ EmbedOk
    \/ EmbedErr
    \/ EmbedBatchReturn
    \/ EmbedBatchAgain

SpecOllama == InitOllama /\ [][NextOllama]_vars

---------------------------------------------------------------------------
(* Properties of the server (Spec) *)

RECURSIVE SumSeq(_)
SumSeq(q) == IF q = <<>> THEN 0 ELSE Head(q) + SumSeq(Tail(q))

\* an IndexChunks call is between taking and releasing indexMutex
InIndexChunks(p) == pc[p] \in {"batch", "append", "set", "ret"}

\* all batches of p's current IndexChunks call succeeded: the batch loop ended
\* without an error
EmbeddedAll(p) ==
    /\ InIndexChunks(p)
    /\ loc[p].failed = 0
    /\ loc[p].i >= Len(loc[p].chunks)

\* no IndexChunks call so far had all of its batches succeed
NoCallSucceeded ==
    /\ \A n \in DOMAIN hist : ~hist[n].ok
    /\ \A p \in Builders : ~EmbeddedAll(p)

\* C1: as long as no IndexChunks call has had all of its batches succeed
\* (failed calls included), isIndexed is false, every semantic search ends
\* with the not-indexed error, and Search has sent nothing to the provider.
C1_NotIndexedUntilSuccess ==
    NoCallSucceeded =>
        /\ isIndexed = FALSE
        /\ nEmbed = 0
        /\ \A r \in Readers :
              (loc[r] # None /\ loc[r].op = "search") => loc[r].kind = "notIndexed"

\* a search has returned the not-indexed error after an IndexChunks call failed
C1_Witness ==
    /\ NoCallSucceeded
    /\ \E n \in DOMAIN hist : ~hist[n].ok /\ hist[n].failed > 1
    /\ \E r \in Readers : pc[r] = "return" /\ loc[r].kind = "notIndexed"

\* the calls that returned an error from batch n > 1
FailedLate == {n \in DOMAIN hist : ~hist[n].ok /\ hist[n].failed > 1}

\* the chunks of the batches before the one that failed
EmbeddedPrefix(h) == SubSeq(h.chunks, 1, (h.failed - 1) * batchSize)

PrefixSums == {SumSeq(SubSeq(done, 1, n)) : n \in 0..Len(done)}

\* C3: a Search or Count running concurrently with AddBatch sees each batch
\* either whole or not at all: the number of chunks it finds in the store is
\* the sum of the sizes of a prefix of the completed appends.
C3_AppendAtomicForReaders ==
    \A r \in Readers :
        (loc[r] # None /\ loc[r].kind \in {"status", "results", "panic"})
            => loc[r].count \in PrefixSums

\* a reader has counted the chunks of the first append while the second
\* append is half done
C3_Witness ==
    \E r \in Readers, p \in Builders :
        /\ loc[r] # None /\ loc[r].kind \in {"status", "results"}
        /\ loc[r].count > 0
        /\ pc[p] = "append"
        /\ 0 < loc[p].k /\ loc[p].k < Len(loc[p].chunks)

\* C4: concurrent IndexChunks calls are serialized: at most one call is past
\* the index lock, and the provider requests, the store append and the flag
\* write of one call never have those of another call between them (what
\* follows an event of a call that has a later event is of the same call).
C4_IndexChunksSerialized ==
    /\ \A p, q \in Builders : (InIndexChunks(p) /\ InIndexChunks(q)) => p = q
    /\ \A i, k \in DOMAIN trace :
          (i < k /\ trace[i].call = trace[k].call)
              => trace[i + 1].call = trace[i].call

\* a call waits for the index lock while another one is about to write the flag
C4_Witness ==
    \E p, q \in Builders :
        /\ pc[p] = "lock" /\ loc[p].chunks # <<>>
        /\ pc[q] = "set" /\ indexMutex = q
        /\ Len(trace) >= 3

\* the IndexChunks calls so far all returned nil and none is running
AllCallsSucceeded ==
    /\ hist # <<>>
    /\ \A n \in DOMAIN hist : hist[n].ok
    /\ \A p \in Builders : ~InIndexChunks(p)

\* C7: after IndexChunks calls that all succeeded, count() is the sum of the
\* lengths of their chunk lists, repeated chunk identifiers included, and
\* isIndexed, which status reports, is true.
C7_CountIsSumOfLengths ==
    AllCallsSucceeded =>
        /\ Len(chunks) = SumSeq([n \in DOMAIN hist |-> hist[n].n])
        /\ isIndexed = TRUE

\* two builds of the same chapters succeeded: the store holds every chunk twice
C7_Witness ==
    /\ AllCallsSucceeded
    /\ Len(hist) = 2
    /\ hist[1].n > 0 /\ hist[2].n > 0
    /\ \E i, j \in DOMAIN chunks : i # j /\ chunks[i].ID = chunks[j].ID

\* the number n of the identifier chunk_n
IdNumber(c) == CHOOSE n \in 0..99 : ChunkID(n) = c.ID

\* C8 as stated: no two chunks of the store carry the same identifier, and
\* within one build the identifiers increase strictly.
C8_ChunkIDsUnique ==
    /\ \A i, j \in DOMAIN chunks : i # j => chunks[i].ID # chunks[j].ID
    /\ \A n \in DOMAIN hist : \A i, j \in DOMAIN hist[n].chunks :
          i < j => IdNumber(hist[n].chunks[i]) < IdNumber(hist[n].chunks[j])

---------------------------------------------------------------------------
(* Properties of the vector store's search (SpecStore) *)

\* the last call was a search: it returned results or panicked
SearchDone == last # None /\ last.kind \in {"results", "panic"}

\* the stored chunks the locale filter of the last search lets through
Matching == {n \in DOMAIN chunks : last.locale = "" \/ chunks[n].Locale = last.locale}

\* what Search reports for the stored chunk n
ResultOf(n) ==
    SemanticResult([chunk |-> chunks[n],
                    score |-> cosineSimilarity(last.query, chunks[n].Embedding)])

SortedByScore(results) ==
    \A i \in 1..(Len(results) - 1) :
        ~ScoreGreater(results[i + 1].Score, results[i].Score)

OnlyLocale(results, locale) ==
    locale # "" => \A i \in DOMAIN results : results[i].Locale = locale

\* the search returned a list that is sorted, filtered and at most topK long;
\* with an empty filter the chunks of all locales count.  No list has a
\* negative length: for topK < 0 "at most topK long" is read as empty, as C6
\* states it.
SortedFilteredTopK ==
    /\ last.kind = "results"
    /\ SortedByScore(last.results)
    /\ OnlyLocale(last.results, last.locale)
    /\ \A i \in DOMAIN last.results : \E n \in Matching : last.results[i] = ResultOf(n)
    /\ Len(last.results) <= (IF last.topK < 0 THEN 0 ELSE last.topK)

\* C5 as stated: for every store, query vector, locale filter and k, Search
\* returns a list sorted non-increasing by score, holding only chunks of the
\* filter's locale (of all locales when the filter is empty), of length <= k.
C5_SearchSortedFilteredBounded == SearchDone => SortedFilteredTopK

\* C6 as stated: Search does not fail at the boundary values of k: for every
\* k <= 0 it returns an empty result, and for every k >= the number of
\* locale-matching chunks it returns all of them.
C6_SearchBoundaryK ==
    SearchDone =>
        /\ last.topK <= 0 => (last.kind = "results" /\ last.results = <<>>)
        /\ last.topK >= Cardinality(Matching) =>
              /\ last.kind = "results"
              /\ Len(last.results) = Cardinality(Matching)
              /\ \A n \in Matching :
                    Cardinality({i \in DOMAIN last.results : last.results[i] = ResultOf(n)})
                        = Cardinality({m \in Matching : ResultOf(m) = ResultOf(n)})

\* every component of v is 0; the empty (or absent) vector included
ZeroMagnitude(v) == \A i \in DOMAIN v : v[i] = 0

\* the score of the stored chunk n is 0 by definition
Degenerate(n) ==
    \/ ZeroMagnitude(last.query)
    \/ ZeroMagnitude(chunks[n].Embedding)
    \/ Len(last.query) # Len(chunks[n].Embedding)

\* the stored chunk n is the query vector itself, and that is not zero
SelfCompared(n) == chunks[n].Embedding = last.query /\ ~ZeroMagnitude(last.query)

InResults(n) == \E i \in DOMAIN last.results : last.results[i] = ResultOf(n)

\* the scores are 0 where they are defined to be 0, and symmetric
ZeroAndSymmetric ==
    \A n \in Matching :
        /\ Degenerate(n) => ResultOf(n).Score.num = 0
        /\ ResultOf(n).Score = cosineSimilarity(chunks[n].Embedding, last.query)

\* a chunk scored 0 by definition is returned when topK does not cut the list
DegenerateReturned ==
    \A n \in Matching :
        (Degenerate(n) /\ Cardinality(Matching) <= last.topK) =>
            (last.kind = "results" /\ InResults(n))

\* C22 as stated: the similarity score is 0 whenever the query vector or the
\* chunk's embedding has zero magnitude (an empty or absent embedding
\* included) or the two differ in length, is symmetric in its two arguments,
\* and is 1 for a non-zero vector compared with itself; a chunk scored 0 for
\* these reasons is still ranked and returned, not dropped.
C22_ScoreZeroSymmetricOne ==
    SearchDone =>
        /\ ZeroAndSymmetric
        /\ DegenerateReturned
        /\ \A n \in Matching :
              SelfCompared(n) => ResultOf(n).Score.num = ResultOf(n).Score.den

\* |x| for the difference of a score's numerator and denominator
Distance(x, y) == IF x < y THEN y - x ELSE x - y

\* C22 amended: as C22, but the score of a non-zero vector compared with
\* itself is 1 up to the rounding of the two square roots, their product and
\* the quotient: it differs from 1 by at most 4 * 2^-Precision (2^-51 in
\* float64).
C22_ScoreZeroSymmetricNearOne ==
    SearchDone =>
        /\ ZeroAndSymmetric
        /\ DegenerateReturned
        /\ \A n \in Matching :
              SelfCompared(n) =>
                  Distance(ResultOf(n).Score.num, ResultOf(n).Score.den) * Pow2(Precision)
                      <= 4 * ResultOf(n).Score.den

\* a search returned a chunk without embedding, scored 0, and a chunk whose
\* embedding is the query vector, scored less than 1
C22_Witness ==
    /\ SearchDone /\ last.kind = "results"
    /\ \E n \in Matching :
          /\ chunks[n].Embedding = <<>> /\ InResults(n) /\ ResultOf(n).Score.num = 0
    /\ \E n \in Matching :
          /\ SelfCompared(n) /\ InResults(n)
          /\ ResultOf(n).Score.num < ResultOf(n).Score.den

---------------------------------------------------------------------------
(* Properties of the chunker (SpecChunk) *)

\* the text before the first level-2 heading, trimmed
Preamble == TrimSpace(HeaderSplit(BodyText)[1])

\* C9 as stated: no chunk's content is longer than the maximum, except the
\* "Introduction" chunk, whose content is the first maximum-many characters of
\* the preamble followed by the ellipsis exactly when the preamble is longer
\* than the maximum.
C9_ChunkContentBounded ==
    out # None =>
        \A i \in DOMAIN out.chunks :
            IF out.chunks[i].Section = Introduction
            THEN out.chunks[i].Content =
                    (IF Len(Preamble) > maxLen
                     THEN SubSeq(Preamble, 1, maxLen) \o Ellipsis
                     ELSE Preamble)
            ELSE Len(out.chunks[i].Content) <= maxLen

\* a level-2 heading line: "##", white space, a title
IsHeadingLine(line) ==
    /\ Len(line) >= 4
    /\ line[1] = "#" /\ line[2] = "#" /\ IsSpace(line[3])
    /\ TrimSpace(SubSeq(line, 3, Len(line))) # <<>>

\* The paragraphs of a sequence of lines: the maximal runs of lines that are
\* neither blank nor (when headings is set) heading lines, every line without
\* the white space at its ends.
RECURSIVE ParagraphsOf(_, _, _, _)
ParagraphsOf(lines, k, current, headings) ==
    IF k > Len(lines)
    THEN IF current # <<>> THEN <<current>> ELSE <<>>
    ELSE IF TrimSpace(lines[k]) = <<>> \/ (headings /\ IsHeadingLine(lines[k]))
         THEN (IF current # <<>> THEN <<current>> ELSE <<>>)
              \o ParagraphsOf(lines, k + 1, <<>>, headings)
         ELSE ParagraphsOf(lines, k + 1, Append(current, TrimSpace(lines[k])), headings)

\* the non-blank paragraphs of the body, heading lines aside, in order
BodyParagraphs == ParagraphsOf(Lines(BodyText), 1, <<>>, TRUE)

\* the paragraphs of the chunks' contents, in the order of the chunks
RECURSIVE ChunkParagraphs(_)
ChunkParagraphs(cs) ==
    IF cs = <<>> THEN <<>>
    ELSE ParagraphsOf(Lines(Head(cs).Content), 1, <<>>, FALSE)
         \o ChunkParagraphs(Tail(cs))

BareMarker(line) ==
    /\ Len(line) >= 2
    /\ line[1] = "#" /\ line[2] = "#"
    /\ TrimSpace(SubSeq(line, 3, Len(line))) = <<>>

NoBareMarker == \A i \in DOMAIN Lines(BodyText) : ~BareMarker(Lines(BodyText)[i])

IsBatchOf(e, c) == e.call = c /\ e.ev = "batch"
BatchEventsOf(c) == SelectSeq(trace, LAMBDA e : IsBatchOf(e, c))

Returned(c) == \E n \in 1..Len(hist) : hist[n].call = c
HistOf(c) == hist[CHOOSE n \in 1..Len(hist) : hist[n].call = c]
Running(c) == \E p \in Builders : loc[p].kind = "index" /\ loc[p].call = c
RunningOf(c) == loc[CHOOSE p \in Builders : loc[p].kind = "index" /\ loc[p].call = c]

\* the caller's chunks of the call c, as IndexChunks has written them
CallerChunks(c) == IF Returned(c) THEN HistOf(c).chunks ELSE RunningOf(c).chunks

IndexCalls == {c \in 1..nCalls.build : Returned(c) \/ Running(c)}

LesserOf(a, b) == IF a < b THEN a ELSE b

\* the k-th batch sent is the k-th run of at most batchSize chunks
BatchesInInputOrder(c) ==
    \A k \in 1..Len(BatchEventsOf(c)) :
        LET e == BatchEventsOf(c)[k]
        IN  /\ e.from = (k - 1) * batchSize
            /\ e.from < Len(CallerChunks(c))
            /\ e.to = LesserOf(e.from + batchSize, Len(CallerChunks(c)))

\* a failed batch is the last one sent, its chunks hold no embedding and
\* the call returns the error
FailedBatchEndsCall(c) ==
    \A k \in 1..Len(BatchEventsOf(c)) :
        LET e == BatchEventsOf(c)[k]
        IN  ~e.ok =>
              /\ k = Len(BatchEventsOf(c))
              /\ \A m \in (e.from + 1)..e.to : CallerChunks(c)[m].Embedding = NoEmbedding
              /\ Returned(c) => ~HistOf(c).ok
              /\ ~Returned(c) => \E p \in Builders :
                                    /\ loc[p].kind = "index" /\ loc[p].call = c
                                    /\ pc[p] = "ret" /\ loc[p].failed # 0

\* C18: index_chunks sends the batches (of at most batchSize texts) to the
\* provider one after another in input order, each batch at most once; when
\* the call for a batch fails or is cancelled, no later batch is sent, the
\* failed batch is not retried, the error is returned, and no chunk of the
\* failed batch has an embedding written into it.
C18_BatchesInOrderNoRetry ==
    \A c \in IndexCalls : BatchesInInputOrder(c) /\ FailedBatchEndsCall(c)

\* a call with more than one batch has returned the error of its first
\* batch, the only one it sent
C18_Witness ==
    \E n \in 1..Len(hist) :
        /\ ~hist[n].ok
        /\ hist[n].n > batchSize
        /\ Len(BatchEventsOf(hist[n].call)) = 1
        /\ ~BatchEventsOf(hist[n].call)[1].ok

\* a step of a goroutine that runs a query-path handler
ReaderStep == \E p \in Readers : pc'[p] # pc[p] \/ loc'[p] # loc[p]

\* a call of the store's Search or Count, or of the parser's ListChapters or
\* Search, by a caller that uses them directly
DirectQueryStep ==
    /\ last' # last
    /\ last'.kind \in {"results", "panic", "count", "list", "search"}

\* C21: query-path operations change no shared state: a vector or semantic
\* search, count, is-indexed, status, document listing or lexical search
\* leaves the store's chunk sequence (content, order and embeddings) and the
\* indexed flag exactly as they were, whether it succeeds or fails.
C21_QueryPathChangesNothing ==
    [][(ReaderStep \/ DirectQueryStep) => (chunks' = chunks /\ isIndexed' = isIndexed)]_vars

\* a semantic search has ranked a store that holds chunks and is about to
\* return its results
C21_Witness ==
    \E r \in Readers :
        /\ pc[r] = "return"
        /\ loc[r].kind = "results" /\ loc[r].results # <<>>
        /\ chunks # <<>> /\ isIndexed

\* the call c of IndexChunks has appended its chunks to the store
AppendDone(c) == \E i \in DOMAIN trace : trace[i].call = c /\ trace[i].ev = "append"

\* run is a run of consecutive elements of store
ContainsRun(store, run) ==
    \E k \in 0..(Len(store) - Len(run)) : SubSeq(store, k + 1, k + Len(run)) = run

\* a semantic search holds the result of ranking the store, under the read
\* lock it took after it found the flag true
RankedStore(r) == pc[r] = "runlock" /\ loc[r].op = "search"

\* C23: index_chunks appends its chunks to the store before it sets the
\* indexed flag: in every interleaving of a semantic search with index_chunks
\* calls, a search that finds the flag true ranks over a store that holds
\* every chunk of at least one index_chunks call that succeeded; the flag,
\* once true, is never set back to false.
C23_FlagAfterAppend ==
    /\ [](\A r \in Readers :
            RankedStore(r) =>
                \E c \in IndexCalls : AppendDone(c) /\ ContainsRun(chunks, CallerChunks(c)))
    /\ [](isIndexed => \E c \in IndexCalls : AppendDone(c))
    /\ [][isIndexed => isIndexed']_vars

\* a semantic search has ranked the chunks of the first build while the
\* second build embeds its batches
C23_Witness ==
    \E r \in Readers, p \in Builders :
        /\ RankedStore(r) /\ loc[r].kind = "results" /\ loc[r].count > 0
        /\ pc[p] = "batch" /\ loc[p].i > 0

\* C24 as stated: index_chunks called with an empty chunk list makes no
\* provider call, leaves count() unchanged and still sets the indexed flag to
\* true, so that a later semantic search on an engine whose store holds zero
\* chunks returns an empty result instead of the not-indexed error.
C24_EmptyIndexThenEmptyResult ==
    /\ \A n \in DOMAIN hist :
          hist[n].n = 0 =>
              /\ hist[n].ok
              /\ BatchEventsOf(hist[n].call) = <<>>
              /\ Len(hist[n].exitChunks) = Len(hist[n].entryChunks)
              /\ hist[n].exitFlag
    /\ \A r \in Readers :
          (/\ pc[r] = "return" /\ loc[r].op = "search"
           /\ loc[r].kind \in {"results", "panic"}
           /\ loc[r].count = 0)
              => (loc[r].kind = "results" /\ loc[r].results = <<>>)

---------------------------------------------------------------------------
(* Properties of the lexical search and of the listing (SpecBook) *)

\* the last call was a search in a locale whose directory can be read
LexicalSearchDone ==
    last # None /\ last.kind = "search" /\ last.locale \in DOMAIN corpus

\* the terms of the last search's query
QueryTerms == Fields(ToLower(last.query))

\* the lines of the documents of the searched locale
CorpusLines ==
    UNION {{ScanLines(f.chapter.Content)[n] : n \in DOMAIN ScanLines(f.chapter.Content)} :
              f \in {corpus[last.locale][i] : i \in {j \in DOMAIN corpus[last.locale] :
                                                        corpus[last.locale][j].ok}}}

\* no term of the query occurs in any line
NoTermOccurs ==
    \A line \in CorpusLines : \A i \in DOMAIN QueryTerms :
        ~Contains(ToLower(line), QueryTerms[i])

\* C11: lexical search returns at most the limit of hits, and for a query none
\* of whose terms occurs in any line it returns an empty sequence and no error
\* (the searched locale being one whose directory can be read).
C11_SearchBounded ==
    LexicalSearchDone =>
        /\ ~last.err
        /\ Len(last.results) <= searchLimit
        /\ NoTermOccurs => last.results = <<>>

\* a search came upon more hits than the limit and returned the limit of them
C11_Witness ==
    /\ LexicalSearchDone
    /\ Len(last.found) > searchLimit
    /\ Len(last.results) = searchLimit

\* hit a has a higher relevance than hit b
Outranks(a, b) == a.Relevance.num * b.Relevance.den > b.Relevance.num * a.Relevance.den

\* results are in descending order of relevance
SortedByRelevance(results) ==
    \A i \in 1..(Len(results) - 1) : ~Outranks(results[i + 1], results[i])

\* a hit is identified by its document and line: the positions of the hit
\* results[i] among the hits found
FoundAt(hit) == {n \in DOMAIN last.found : last.found[n] = hit}

\* every returned hit was found, and no found hit is returned more often than
\* it was found
ReturnedWereFound ==
    \A i \in DOMAIN last.results :
        /\ FoundAt(last.results[i]) # {}
        /\ Cardinality({j \in DOMAIN last.results : last.results[j] = last.results[i]})
              <= Cardinality(FoundAt(last.results[i]))

\* the hits found and not returned
DroppedHits ==
    {n \in DOMAIN last.found :
        Cardinality({j \in DOMAIN last.results : last.results[j] = last.found[n]})
            < Cardinality(FoundAt(last.found[n]))}

\* every returned hit has relevance >= that of every dropped hit
ReturnedOutrankDropped ==
    \A i \in DOMAIN last.results : \A n \in DroppedHits :
        ~Outranks(last.found[n], last.results[i])

\* the number of different terms of the query that occur in a line
DistinctTermsIn(line) ==
    Cardinality({QueryTerms[i] : i \in {j \in DOMAIN QueryTerms :
                                           Contains(ToLower(line), QueryTerms[j])}})

\* for a query of two terms: a hit whose line holds both terms is before every
\* hit whose line holds one
TwoOfTwoBeforeOneOfTwo ==
    Len(QueryTerms) = 2 =>
        \A i, j \in DOMAIN last.results :
            (last.results[i].Relevance.num = 2 /\ last.results[j].Relevance.num = 1)
                => i < j

\* hits of equal relevance are in the order in which they were found: the
\* results are the hits found, stably sorted and cut
KeepsEncounterOrder ==
    \E pos \in [DOMAIN last.results -> DOMAIN last.found] :
        /\ \A i \in DOMAIN last.results : last.found[pos[i]] = last.results[i]
        /\ \A i, j \in DOMAIN last.results :
              (i < j /\ ~Outranks(last.results[i], last.results[j]))
                  => pos[i] < pos[j]

\* C12 as stated: the hits are sorted by relevance descending, 2 of 2 before 1
\* of 2, hits of equal relevance keep the order in which they were found, and
\* every returned hit has relevance >= that of every dropped hit.
C12_SortedStableTopHits ==
    (LexicalSearchDone /\ ~last.err) =>
        /\ SortedByRelevance(last.results)
        /\ TwoOfTwoBeforeOneOfTwo
        /\ ReturnedWereFound
        /\ ReturnedOutrankDropped
        /\ KeepsEncounterOrder

\* C12 amended: the same without the order of the hits of equal relevance,
\* which sort.Slice does not determine.
C12_SortedTopHits ==
    (LexicalSearchDone /\ ~last.err) =>
        /\ SortedByRelevance(last.results)
        /\ TwoOfTwoBeforeOneOfTwo
        /\ ReturnedWereFound
        /\ ReturnedOutrankDropped

\* a search with two terms found a 1-of-2 line before a 2-of-2 line and more
\* hits than the limit, and returned the 2-of-2 hit first
C12_Witness ==
    /\ LexicalSearchDone
    /\ Len(QueryTerms) = 2
    /\ Len(last.found) > searchLimit
    /\ last.found[1].Relevance.num = 1
    /\ last.found[2].Relevance.num = 2
    /\ last.results[1] = last.found[2]

\* C19 as stated: the relevance of every hit is the number of distinct terms
\* of the query that occur in the lowercased line divided by the number of
\* terms of the query, is greater than 0 and at most 1, and a line is a hit
\* exactly when that number is greater than 0.
C19_RelevanceIsDistinctTermFraction ==
    (LexicalSearchDone /\ ~last.err) =>
        /\ \A n \in DOMAIN last.found :
              LET hit == last.found[n]
              IN  \E line \in CorpusLines :
                     /\ SearchResult([ID |-> hit.ChapterID, Name |-> hit.ChapterName],
                                     hit.Section, line, hit.LineNumber, hit.Relevance,
                                     hit.Locale) = hit
                     /\ hit.Relevance.num * Len(QueryTerms)
                           = DistinctTermsIn(line) * hit.Relevance.den
                     /\ hit.Relevance.num > 0
                     /\ hit.Relevance.num <= hit.Relevance.den
        /\ \A line \in CorpusLines :
              DistinctTermsIn(line) > 0 =>
                  \E n \in DOMAIN last.found :
                      last.found[n].Snippet
                          = SearchResult([ID |-> "", Name |-> ""], <<>>, line, 0, 0, "").Snippet

\* the last call was a listing of a locale whose directory can be read
ListingDone == last # None /\ last.kind = "list" /\ last.locale \in DOMAIN corpus

\* how often x is an element of the sequence q
CountIn(q, x) == Cardinality({i \in DOMAIN q : q[i] = x})

\* the documents of the files that parse, each as often as it is there
ExactlyTheParsed(chapters, files) ==
    /\ \A i \in DOMAIN chapters :
          CountIn(chapters, chapters[i])
              = Cardinality({j \in DOMAIN files :
                                files[j].ok /\ files[j].chapter = chapters[i]})
    /\ \A j \in DOMAIN files :
          files[j].ok => \E i \in DOMAIN chapters : chapters[i] = files[j].chapter
    /\ Len(chapters) = Cardinality({j \in DOMAIN files : files[j].ok})

\* C15: listing the documents of a locale succeeds whatever files the
\* directory holds, contains exactly the documents of the files that parse, and
\* is sorted ascending by the ordering key.
C15_ListingIsolatesParseFailures ==
    ListingDone =>
        /\ ~last.err
        /\ ExactlyTheParsed(last.chapters, corpus[last.locale])
        /\ \A i \in 1..(Len(last.chapters) - 1) :
              last.chapters[i].Order <= last.chapters[i + 1].Order

\* a directory whose first file does not parse and whose second does
C15_Witness ==
    /\ ListingDone
    /\ Len(corpus[last.locale]) = 2
    /\ ~corpus[last.locale][1].ok
    /\ corpus[last.locale][2].ok
    /\ Len(last.chapters) = 1

---------------------------------------------------------------------------
(* Properties of GetSection (SpecSection) and of generateTagID (SpecSlug) *)

\* the last call was a GetSection in a locale whose directory can be read
SectionDone ==
    last # None /\ last.kind = "section" /\ last.locale \in DOMAIN corpus

\* the documents of the locale of the last call that have the requested id
DocsWithID ==
    {corpus[last.locale][i].chapter :
        i \in {j \in DOMAIN corpus[last.locale] :
                  /\ corpus[last.locale][j].ok
                  /\ corpus[last.locale][j].chapter.ID = last.chapterID}}

\* the numbers of the heading lines of document d that derive the requested
\* slug
HeadingsWithSlug(d) ==
    {k \in DOMAIN Lines(d.Content) :
        /\ LineHeader(Lines(d.Content)[k]).ok
        /\ generateTagID(LineHeader(Lines(d.Content)[k]).title) = last.tagID}

\* the first line of a text
FirstLine(text) == Lines(text)[1]

\* the call succeeded with a block that is not empty and starts with line k
\* of document d (white space at the end of the line aside)
StartsWithHeading(d, k) ==
    /\ last.err = ""
    /\ last.text # <<>>
    /\ TrimRight(FirstLine(last.text)) = TrimRight(Lines(d.Content)[k])

\* C13 as stated: for every document D and every heading H of D (one whose
\* slug an earlier heading of D has included), get_section(D.id, slug(H),
\* locale) succeeds with a non-empty block whose first line is H's heading
\* line.
C13_SectionStartsWithItsHeading ==
    SectionDone =>
        \A d \in DocsWithID : \A k \in HeadingsWithSlug(d) : StartsWithHeading(d, k)

\* C13 amended: the same for every document D whose id no other document of
\* the locale has and every heading H of D that is the first heading of D
\* deriving its slug.
C13_SectionStartsWithFirstHeading ==
    (SectionDone /\ Len(SelectSeq(corpus[last.locale],
                                  LAMBDA f : f.ok /\ f.chapter.ID = last.chapterID)) = 1)
        => \A d \in DocsWithID : \A k \in HeadingsWithSlug(d) :
              (\A j \in HeadingsWithSlug(d) : k <= j) => StartsWithHeading(d, k)

\* the section of a heading that is not the first line of its document, in a
\* directory of two documents
C13_Witness ==
    /\ SectionDone
    /\ Len(corpus[last.locale]) = 2
    /\ Cardinality(DocsWithID) = 1
    /\ \E d \in DocsWithID : \E k \in HeadingsWithSlug(d) :
          /\ k > 1
          /\ Cardinality(HeadingsWithSlug(d)) = 2
          /\ StartsWithHeading(d, k)

\* the lines k..(m - 1) of a document as one text, every line with its line end
RECURSIVE LinesText(_, _, _)
LinesText(lines, k, m) ==
    IF k >= m THEN <<>> ELSE lines[k] \o <<NL>> \o LinesText(lines, k + 1, m)

\* the number of the first heading line after line k, of any level; the
\* number after the last line when there is none
NextHeading(lines, k) ==
    LET after == {m \in (k + 1)..Len(lines) : LineHeader(lines[m]).ok}
    IN  IF after = {} THEN Len(lines) + 1
        ELSE CHOOSE m \in after : \A n \in after : m <= n

\* C20 as stated: get_section returns the lines from the first heading whose
\* slug is the requested one up to, and not including, the next heading line
\* of any level, also when that heading derives the same slug; it fails with
\* the not-found error exactly when no heading of the document derives the
\* slug.  (The block is compared without the white space at its ends.)
C20_SectionEndsAtNextHeading ==
    (SectionDone /\ last.chapter # None) =>
        LET lines == Lines(last.chapter.Content)
            hs == HeadingsWithSlug(last.chapter)
        IN  IF hs = {} THEN last.err = "section not found"
            ELSE LET k == CHOOSE i \in hs : \A j \in hs : i <= j
                 IN  /\ last.err = ""
                     /\ last.text = TrimSpace(LinesText(lines, k, NextHeading(lines, k)))

\* the last call was generateTagID on the typed title
SlugDone == out # None /\ out.kind = "tagID"

ToUpperChar(c) == CASE c = "a" -> "A" [] c = "b" -> "B" [] OTHER -> c

ToUpper(s) == [i \in 1..Len(s) |-> ToUpperChar(s[i])]

\* the words of a title, separated by single spaces
RECURSIVE JoinWords(_, _)
JoinWords(ws, sep) ==
    IF ws = <<>> THEN <<>>
    ELSE IF Len(ws) = 1 THEN ws[1]
    ELSE ws[1] \o sep \o JoinWords(Tail(ws), sep)

\* every word of the title is made of letters and digits
PlainWords(title) ==
    \A i \in DOMAIN title : IsLetterOrDigit(title[i]) \/ IsSpace(title[i])

\* C14 as stated: the slug of a slug is the slug; titles that differ only in
\* case, in white space at their ends, or in the kind and number of the white
\* space characters between their words (spaces or tabs) have the same slug,
\* in which every white space run is a single hyphen.
C14_SlugIdempotentCaseWhitespaceInsensitive ==
    SlugDone =>
        /\ generateTagID(out.tagID) = out.tagID
        /\ generateTagID(ToUpper(body)) = out.tagID
        /\ generateTagID(ToLower(body)) = out.tagID
        /\ generateTagID(JoinWords(Fields(body), <<SP>>)) = out.tagID
        /\ generateTagID(<<SP, TAB>> \o JoinWords(Fields(body), <<TAB, SP, SP>>) \o <<TAB>>)
              = out.tagID
        /\ PlainWords(body) => out.tagID = JoinWords(Fields(ToLower(body)), <<"-">>)

---------------------------------------------------------------------------
(* Properties of parseFrontmatter (SpecParse) *)

ParseDone == out.kind = "parsed"

StartsWithDelimiter(t) == Len(t) >= 3 /\ \A i \in 1..3 : t[i] = "-"

\* the 0-based positions after the leading delimiter at which the delimiter
\* occurs again
FollowingDelimiters(t) ==
    {i \in 3..(Len(t) - 3) : \A j \in 1..3 : t[i + j] = "-"}

FirstFollowingDelimiter(t) ==
    CHOOSE i \in FollowingDelimiters(t) : \A j \in FollowingDelimiters(t) : i <= j

\* the section lists of RawTitleLists that are well formed, as they stand in
\* the text, with the sections they denote
WellFormedLists ==
    {[text |-> <<"t", "i", "t", "l", "e", "L", "i", "s", "t", ":", SP, "[", "]", NL>>,
      sections |-> <<>>],
     [text |-> <<"t", "i", "t", "l", "e", "L", "i", "s", "t", ":", SP, "[", "{", "n",
                 "a", "m", "e", ":", SP, QUOTE, "a", QUOTE, ",", SP, "t", "a", "g",
                 "I", "d", ":", SP, QUOTE, "b", QUOTE, "}", "]", NL>>,
      sections |-> <<[Name |-> <<"a">>, TagID |-> <<"b">>]>>],
     [text |-> <<"t", "i", "t", "l", "e", "L", "i", "s", "t", ":", SP, "[", NL, SP,
                 "{", SP, "n", "a", "m", "e", ":", SP, QUOTE, "a", QUOTE, ",", SP,
                 "t", "a", "g", "I", "d", ":", SP, QUOTE, "b", QUOTE, SP, "}", ",",
                 NL, SP, "{", "t", "a", "g", "I", "d", ":", SP, QUOTE, "c", QUOTE,
                 "}", NL, "]", NL>>,
      sections |-> <<[Name |-> <<"a">>, TagID |-> <<"b">>],
                     [Name |-> <<>>, TagID |-> <<"c">>]>>]}

IsSubstring(sub, t) ==
    \E i \in 0..(Len(t) - Len(sub)) : \A j \in 1..Len(sub) : t[i + j] = sub[j]

\* the sections of the well-formed list the front matter fm holds, or none
SectionsDenoted(fm) ==
    IF \E w \in WellFormedLists : IsSubstring(w.text, fm)
    THEN (CHOOSE w \in WellFormedLists : IsSubstring(w.text, fm)).sections
    ELSE <<>>

\* C16: parsing a raw document fails exactly when the text does not start
\* with the front-matter delimiter or no second occurrence of the delimiter
\* follows it; in every other case it yields a document whose front matter
\* ends at the first following occurrence of the delimiter, and a section
\* list that is malformed, unbalanced or cannot be decoded yields an empty
\* section list instead of a failure.
C16_ParseFailsOnlyOnDelimiters ==
    ParseDone =>
        LET t == out.content
            r == out.result
        IN  /\ r.err <=> (~StartsWithDelimiter(t) \/ FollowingDelimiters(t) = {})
            /\ ~r.err =>
                 /\ r.fmContent = SubSeq(t, 4, FirstFollowingDelimiter(t))
                 /\ r.fm.TitleList = SectionsDenoted(r.fmContent)

\* a document with an unbalanced section list has been parsed: it has its
\* identifier and no section
C16_Witness ==
    /\ ParseDone
    /\ ~out.result.err
    /\ IsSubstring(<<"[", "{", "n", "a", "m", "e", ":", SP, QUOTE, "a", QUOTE, ",", SP,
                     "t", "a", "g", "I", "d", ":", SP, QUOTE, "b", QUOTE, "}", NL>>,
                   out.result.fmContent)
    /\ out.result.fm.ID = <<"x">>
    /\ out.result.fm.TitleList = <<>>

---------------------------------------------------------------------------
(* Properties of OllamaClient.EmbedBatch (SpecOllama) *)

InEmbedBatch == last # None /\ last.kind = "embedBatch"

EmbedBatchDone == InEmbedBatch /\ last.state = "returned"

\* the k-th call is for the k-th text
CallsInInputOrder ==
    \A k \in 1..Len(last.calls) : k <= Len(last.texts) /\ last.calls[k].text = last.texts[k]

FailedCalls == {k \in 1..Len(last.calls) : ~last.calls[k].ok}

\* C17: embed_batch embeds the texts one at a time in input order; when all
\* calls succeed vectors[i] is the vector of texts[i]; when the call for
\* texts[i] is the first to fail, no call is made for any text after i, the
\* error names index i, and no vectors are returned.
C17_EmbedBatchSequentialFailFast ==
    InEmbedBatch =>
        /\ CallsInInputOrder
        /\ (EmbedBatchDone /\ FailedCalls = {}) =>
              /\ ~last.err.failed /\ ~last.isNil
              /\ Len(last.calls) = Len(last.texts)
              /\ Len(last.vectors) = Len(last.texts)
              /\ \A k \in 1..Len(last.texts) : last.vectors[k] = last.calls[k].emb
        /\ FailedCalls # {} =>
              /\ FailedCalls = {Len(last.calls)}
              /\ EmbedBatchDone
              /\ last.err.failed /\ last.err.index = Len(last.calls) - 1
              /\ last.isNil /\ last.vectors = <<>>

\* the call for the second of three texts failed and EmbedBatch returned
C17_Witness ==
    /\ EmbedBatchDone
    /\ Len(last.texts) = 3
    /\ Len(last.calls) = 2
    /\ last.calls[1].ok /\ ~last.calls[2].ok
    /\ last.err.failed

====
